---- MODULE Spec2Model ----
(***************************************************************************)
(* Model of the llm-checker ML pipeline (ml-model/python):                 *)
(*   dataset_aggregator.py  - load, clean, label, save the benchmark table *)
(*   train_model.py         - precondition checks, encoders, training,     *)
(*                            export and the optional ONNX path            *)
(* Numbers that are floats in the program are kept as integers; sizes in   *)
(* billions of parameters are kept in thousandths.                         *)
(***************************************************************************)
EXTENDS Integers, Sequences, FiniteSets, TLC

VARIABLES
    apc,            \* aggregator main(): position
    df,             \* the DataFrame handed from step to step of process_all
    analysis,       \* analyze_dataset's result
    processed,      \* data/processed/benchmarks.parquet as written
    aerror,         \* the exception raised inside the aggregator, if any
    amessage,       \* what aggregator main() reported
    aexit,          \* how aggregator main() ended
    output_dir,     \* whether the run created data/processed
    label_stats     \* what create_training_labels printed

avars == <<apc, df, analysis, processed, aerror, amessage, aexit,
           output_dir, label_stats>>

VARIABLES
    tpc,              \* trainer main() / train_complete_pipeline: position
    tdata,            \* data/processed/benchmarks.parquet as the trainer finds it
    model_dir,        \* whether ModelTrainer() created the artifact directory
    encoders_fitted,  \* load_and_prepare_data fitted the encoders and the scaler
    model_created,    \* create_model ran
    model_fitted,     \* train_model ran model.fit / model.predict
    artifacts,        \* the files written under model_dir
    onnx_message,     \* what convert_to_onnx reported
    terror,           \* the exception raised inside the pipeline, if any
    tmessage,         \* what the trainer reported last
    texit             \* how trainer main() ended

tvars == <<tpc, tdata, model_dir, encoders_fitted, model_created, model_fitted, artifacts,
           onnx_message, terror, tmessage, texit>>

VARIABLES
    epc,         \* categorical encoding of one feature: position
    column,      \* df[feature], the values the encoder is fitted on
    classes_,    \* LabelEncoder.classes_, the fitted vocabulary
    vocab_size,  \* categorical_vocab_sizes[feature]
    encoded,     \* X[feature], the encoded column
    applied      \* the last application of the fitted vocabulary to a value

evars == <<epc, column, classes_, vocab_size, encoded, applied>>

VARIABLES
    argv            \* sys.argv of the stage that is run

VARIABLES
    raw_dir,          \* data/raw when its listing is fixed beforehand
    arun,             \* which run of the aggregator on data/raw this is
    first_processed   \* the processed dataset the first run left behind

rvars == <<raw_dir, arun, first_processed>>

VARIABLES
    cpc,             \* collector main(): position
    raw_output_dir,  \* whether BenchmarkCollector() created data/raw
    hardware_spec,   \* what get_hardware_spec returned
    models,          \* what get_available_models returned
    results,         \* how each `ollama run` so far ended
    benchmarks,      \* the list benchmark_all_models is building
    batch_file,      \* the benchmark_<host>_<time>.parquet file as written
    cmessage,        \* what collector main() reported
    cexit            \* how collector main() ended

cvars == <<cpc, raw_output_dir, hardware_spec, models, results, benchmarks, batch_file,
           cmessage, cexit>>

VARIABLES
    zpc,           \* deriving the size of one model: position
    model_id,      \* the model identifier, as its characters
    model_size,    \* what _extract_size_from_model_id returned
    size_numeric   \* what _parse_model_size returned, in thousandths

zvars == <<zpc, model_id, model_size, size_numeric>>

VARIABLES
    fpc,            \* model.fit: position
    epoch,          \* epochs completed
    val_loss,       \* logs['val_loss'] of the last epoch
    best,           \* EarlyStopping.best
    wait,           \* EarlyStopping.wait
    best_weights,   \* EarlyStopping.best_weights: the epoch they are from
    weights,        \* the model's weights: the epoch they are from
    stopped_epoch,  \* EarlyStopping.stopped_epoch
    stop_training,  \* model.stop_training
    lr_best,        \* ReduceLROnPlateau.best
    lr_wait,        \* ReduceLROnPlateau.wait
    lr_halvings,    \* optimizer.learning_rate: the times factor=0.5 was applied to it
    history         \* history.history['val_loss']: its minimum and the first epoch at it

kvars == <<fpc, epoch, val_loss, best, wait, best_weights, weights, stopped_epoch,
           stop_training, lr_best, lr_wait, lr_halvings, history>>

vars == <<avars, tvars, evars, argv, rvars, cvars, zvars, kvars>>

\* ------------------------------------------------------------- bounds
MaxRows == 3    \* rows in the raw batch files altogether
MaxFiles == 2   \* batch files in data/raw
MaxTps == 3     \* largest tokens_per_second a benchmark reports
MaxPositives == 11  \* most rows with label_best = 1 in a processed dataset
MaxHostCount == 3   \* most distinct host_id values in a processed dataset
MaxColumn == 3      \* rows of the column a categorical encoder is fitted on
MaxIdLen == 3       \* characters of a model identifier
MaxListedFiles == 2 \* batch files of a data/raw that is aggregated twice
MaxListedRows == 2  \* rows in the batch files of such a directory altogether
MaxTwinRows == 3    \* rows one of two hosts of the same hardware contributes
MaxModels == 2      \* models `ollama list` reports
MaxSparseRows == 3  \* rows of a batch file whose hardware columns hold nulls
MaxOrderRows == 2   \* rows of a batch file that is read in any order
MaxLoss == 9        \* the validation losses an epoch can end with are 0..MaxLoss

\* ------------------------------------------------- values and helpers
\* A missing value (pandas NaN / None): of a number, of a string kept as a
\* sequence, and of a category label.
NaN == 0 - 1000000
NoString == <<"NaN">>
NoLabel == "NaN"

RECURSIVE SeqSum(_)
SeqSum(s) == IF s = <<>> THEN 0 ELSE Head(s) + SeqSum(Tail(s))

RECURSIVE Concat(_)
Concat(ss) == IF ss = <<>> THEN <<>> ELSE Head(ss) \o Concat(Tail(ss))

SetMax(S) == CHOOSE x \in S : \A y \in S : y <= x

\* ------------------------------------------- benchmark_collector output
\* HardwareSpec snapshots as get_hardware_spec returns them; a GPU name is
\* kept as its sequence of words.
HardwareSpecs ==
    { [host_id |-> "h1", cpu_cores |-> 8, cpu_freq_max |-> 3, total_ram_gb |-> 10,
       gpu_model |-> <<"NVIDIA", "GeForce", "RTX", "4090">>, gpu_vram_gb |-> 24,
       platform |-> "Linux"],
      [host_id |-> "h2", cpu_cores |-> 4, cpu_freq_max |-> 3, total_ram_gb |-> 16,
       gpu_model |-> <<"CPU", "Only">>, gpu_vram_gb |-> 0,
       platform |-> "Darwin"] }

\* The models `ollama list` reports, in order, with the size string
\* _extract_size_from_model_id gives each (a string is its characters).
InstalledModels ==
    << [model_id |-> "llama2:7b",    model_size |-> <<"7", "b">>],
       [model_id |-> "tinyllama:1b", model_size |-> <<"1", "b">>],
       [model_id |-> "smollm:360m",  model_size |-> <<"3", "6", "0", "m">>],
       [model_id |-> "phi3:mini",    model_size |-> <<"u", "n", "k", "n", "o", "w", "n">>] >>

ModelAt(j) == InstalledModels[((j - 1) % Len(InstalledModels)) + 1]

\* benchmark_model: a failed run keeps the zeroed metrics, a run that exits 0
\* records what it measured.
FailedRun ==
    [success |-> FALSE, tokens_per_second |-> 0, peak_ram_mb |-> 0, response_time |-> 0]

SuccessfulRuns ==
    { [success |-> TRUE, tokens_per_second |-> t, peak_ram_mb |-> 1000, response_time |-> 5]
        : t \in 0..MaxTps }
    \cup
    { [success |-> TRUE, tokens_per_second |-> MaxTps, peak_ram_mb |-> 1000, response_time |-> 60],
      [success |-> TRUE, tokens_per_second |-> MaxTps, peak_ram_mb |-> 8192, response_time |-> 5] }

BenchmarkRuns == {FailedRun} \cup SuccessfulRuns

\* collect_benchmark_data: one row per benchmarked model, the hardware
\* fields added to each row as hw_<field>.
BenchmarkRow(hw, m, b) ==
    [host_id |-> hw.host_id,
     model_id |-> m.model_id,
     model_size |-> m.model_size,
     tokens_per_second |-> b.tokens_per_second,
     peak_ram_mb |-> b.peak_ram_mb,
     response_time |-> b.response_time,
     success |-> b.success,
     hw_cpu_cores |-> hw.cpu_cores,
     hw_cpu_freq_max |-> hw.cpu_freq_max,
     hw_total_ram_gb |-> hw.total_ram_gb,
     hw_gpu_model |-> hw.gpu_model,
     hw_gpu_vram_gb |-> hw.gpu_vram_gb,
     hw_platform |-> hw.platform]

\* A batch file: readable (its rows) or one that fails to parse.
BatchFile(hw, runs) ==
    [ok |-> TRUE, rows |-> [j \in 1..Len(runs) |-> BenchmarkRow(hw, ModelAt(j), runs[j])]]

CorruptFile == [ok |-> FALSE, rows |-> <<>>]

\* The row counts of at most `files` files holding at most `rows` rows
\* altogether: 0 stands for a corrupt file.
RowCountsWithin(files, rows) ==
    {c \in UNION {[1..k -> 0..rows] : k \in 0..files} : SeqSum(c) <= rows}

\* The row counts of the files of a directory.
RowCounts == RowCountsWithin(MaxFiles, MaxRows)

\* The directory whose i-th file has c[i] rows, taken in order from runs, and
\* was collected on hardware hws[i].
Directory(c, hws, runs) ==
    [i \in 1..Len(c) |->
        IF c[i] = 0 THEN CorruptFile
        ELSE LET before == SeqSum(SubSeq(c, 1, i - 1))
             IN  BatchFile(hws[i], SubSeq(runs, before + 1, before + c[i]))]

AnyHardware == CHOOSE hw \in HardwareSpecs : TRUE

\* ------------------------------------------------ dataset_aggregator.py
ConcatKeepIndex(dfs) ==
    Concat([k \in 1..Len(dfs) |-> [i \in 1..Len(dfs[k]) |-> [index |-> i - 1] @@ dfs[k][i]]])
\* pd.concat(dfs, ignore_index=True): the rows in order, indexed 0, 1, ...
ConcatIgnoreIndex(dfs) ==
    LET rows == Concat(dfs)
    IN  [i \in 1..Len(rows) |-> [index |-> i - 1] @@ rows[i]]

LoadErrorOnAnyCorrupt(files) ==
    IF files = <<>> THEN "FileNotFoundError"
    ELSE IF \E i \in 1..Len(files) : ~files[i].ok THEN "ValueError"
    ELSE "none"
\* load_all_benchmarks: what it raises, if anything.
LoadError(files) ==
    IF files = <<>> THEN "FileNotFoundError"
    ELSE IF SelectSeq(files, LAMBDA f : f.ok) = <<>> THEN "ValueError"
    ELSE "none"

\* load_all_benchmarks: a file that fails to parse is skipped, the others
\* are concatenated.
LoadAllBenchmarks(files) ==
    LET readable == SelectSeq(files, LAMBDA f : f.ok)
    IN  ConcatIgnoreIndex([i \in 1..Len(readable) |-> readable[i].rows])

\* _parse_model_size, in thousandths of a billion parameters.
Digits == {"0", "1", "2", "3", "4", "5", "6", "7", "8", "9"}

DigitValue(c) ==
    CASE c = "0" -> 0 [] c = "1" -> 1 [] c = "2" -> 2 [] c = "3" -> 3 [] c = "4" -> 4
      [] c = "5" -> 5 [] c = "6" -> 6 [] c = "7" -> 7 [] c = "8" -> 8 [] c = "9" -> 9

\* The length of the longest prefix of s made of digits.
RECURSIVE DigitRun(_)
DigitRun(s) ==
    IF s # <<>> /\ Head(s) \in Digits THEN 1 + DigitRun(Tail(s)) ELSE 0

RECURSIVE DigitsToInt(_)
DigitsToInt(s) ==
    IF s = <<>> THEN 0 ELSE DigitsToInt(SubSeq(s, 1, Len(s) - 1)) * 10 + DigitValue(s[Len(s)])

\* The first three decimals of a digit string read as a fraction.
FractionMilli(s) ==
    LET d(i) == IF i <= Len(s) THEN DigitValue(s[i]) ELSE 0
    IN  d(1) * 100 + d(2) * 10 + d(3)

\* str.lower() on the characters the model uses.
LowerChar(c) ==
    CASE c = "B" -> "b" [] c = "M" -> "m" [] c = "K" -> "k" [] OTHER -> c

LowerStr(str) == [i \in 1..Len(str) |-> LowerChar(str[i])]

ParseModelSize(size_str) ==
    IF size_str = NoString \/ size_str = <<"u", "n", "k", "n", "o", "w", "n">> THEN 1000
    ELSE
      LET lowered == LowerStr(size_str)
          n == DigitRun(lowered)
          afterInt == SubSeq(lowered, n + 1, Len(lowered))
          hasDot == afterInt # <<>> /\ Head(afterInt) = "."
          fracPart == IF hasDot THEN Tail(afterInt) ELSE afterInt
          m == DigitRun(fracPart)
          rest == SubSeq(fracPart, m + 1, Len(fracPart))
          \* without a dot the second digit run is empty: \d+ took them all
          num == DigitsToInt(SubSeq(lowered, 1, n)) * 1000
                   + (IF hasDot THEN FractionMilli(SubSeq(fracPart, 1, m)) ELSE 0)
          unit == IF rest # <<>> /\ Head(rest) \in {"k", "m", "b"} THEN Head(rest) ELSE ""
      IN  IF n = 0 THEN 1000
          ELSE IF unit = "k" THEN num \div 1000
          ELSE IF unit = "m" THEN num \div 1000
          ELSE num

\* str.lower(), word by word, on the words the model uses.
Lower(w) ==
    CASE w = "NVIDIA" -> "nvidia" [] w = "GeForce" -> "geforce" [] w = "RTX" -> "rtx"
      [] w = "GTX" -> "gtx" [] w = "CPU" -> "cpu" [] w = "Only" -> "only"
      [] w = "Apple" -> "apple" [] w = "Silicon" -> "silicon" [] w = "GPU" -> "gpu"
      [] w = "AMD" -> "amd" [] w = "Radeon" -> "radeon" [] w = "Intel" -> "intel"
      [] OTHER -> w

\* `pattern in gpu_name` on word sequences.
Contains(name, pattern) ==
    \E i \in 1..Len(name) :
        i + Len(pattern) - 1 <= Len(name) /\ SubSeq(name, i, i + Len(pattern) - 1) = pattern

UnmatchedGpuNone(gpu_name) == NoLabel
\* _normalize_gpu_name: the final else, for a name no pattern is found in.
UnmatchedGpu(gpu_name) == "unknown_gpu"

\* _normalize_gpu_name
NormalizeGpuName(gpu_name) ==
    IF gpu_name = NoString THEN "cpu_only"
    ELSE
      LET g == [i \in 1..Len(gpu_name) |-> Lower(gpu_name[i])]
      IN  CASE Contains(g, <<"rtx", "4090">>) -> "rtx_4090"
            [] Contains(g, <<"rtx", "4080">>) -> "rtx_4080"
            [] Contains(g, <<"rtx", "4070">>) -> "rtx_4070"
            [] Contains(g, <<"rtx", "4060">>) -> "rtx_4060"
            [] Contains(g, <<"rtx", "3090">>) -> "rtx_3090"
            [] Contains(g, <<"rtx", "3080">>) -> "rtx_3080"
            [] Contains(g, <<"rtx", "3070">>) -> "rtx_3070"
            [] Contains(g, <<"rtx", "3060">>) -> "rtx_3060"
            [] Contains(g, <<"gtx", "1080">>) -> "gtx_1080"
            [] Contains(g, <<"gtx", "1070">>) -> "gtx_1070"
            [] Contains(g, <<"gtx", "1060">>) -> "gtx_1060"
            [] Contains(g, <<"apple", "silicon">>) -> "apple_silicon"
            [] Contains(g, <<"cpu", "only">>) -> "cpu_only"
            [] Contains(g, <<"amd">>) \/ Contains(g, <<"radeon">>) -> "amd_gpu"
            [] Contains(g, <<"intel">>) -> "intel_gpu"
            [] Contains(g, <<"nvidia">>) \/ Contains(g, <<"geforce">>) -> "nvidia_gpu_other"
            [] OTHER -> UnmatchedGpu(g)

CutLeftClosed(x, breaks, labels) ==
    IF x = NaN THEN NoLabel
    ELSE IF x < breaks[1] THEN NoLabel
    ELSE labels[Cardinality({i \in 1..Len(breaks) : breaks[i] <= x})]
\* pd.cut(x, bins=breaks + [inf], labels): right-closed intervals, a value
\* at or below the first break (or missing) gets no label.
Cut(x, breaks, labels) ==
    IF x = NaN THEN NoLabel
    ELSE IF x <= breaks[1] THEN NoLabel
    ELSE labels[Cardinality({i \in 1..Len(breaks) : breaks[i] < x})]

RamTier(x) == Cut(x, <<0, 8, 16, 32, 64>>, <<"low", "medium", "high", "very_high", "extreme">>)
CpuTier(x) == Cut(x, <<0, 4, 8, 16, 32>>, <<"low", "medium", "high", "very_high", "extreme">>)
VramTier(x) ==
    Cut(x, <<-1, 0, 4, 8, 16, 24>>, <<"none", "low", "medium", "high", "very_high", "extreme">>)

KeepRowNonNegative(r) == r.success = TRUE /\ r.tokens_per_second >= 0
\* clean_and_preprocess: which rows stay.
KeepRow(r) == r.success = TRUE /\ r.tokens_per_second > 0

\* clean_and_preprocess
CleanAndPreprocess(d) ==
    LET kept == SelectSeq(d, KeepRow)
    IN  [i \in 1..Len(kept) |->
            [model_size_numeric |-> ParseModelSize(kept[i].model_size),
             gpu_model_normalized |-> NormalizeGpuName(kept[i].hw_gpu_model),
             ram_tier |-> RamTier(kept[i].hw_total_ram_gb),
             cpu_tier |-> CpuTier(kept[i].hw_cpu_cores),
             vram_tier |-> VramTier(kept[i].hw_gpu_vram_gb)] @@ kept[i]]

\* create_training_labels: the viability thresholds.
MinTokensPerSecond == 1
MaxResponseTime == 60
RamShareTenths == 8
MinGroupSize == 2

HardwareConfigWithoutHost(r) ==
    <<r.hw_cpu_cores, r.hw_cpu_freq_max, r.hw_total_ram_gb, r.gpu_model_normalized,
      r.hw_gpu_vram_gb>>
\* create_training_labels: hardware_cols, the grouping key of a row.
HardwareConfig(r) ==
    <<r.host_id, r.hw_cpu_cores, r.hw_cpu_freq_max, r.hw_total_ram_gb,
      r.gpu_model_normalized, r.hw_gpu_vram_gb>>

HasMissingKey(r) ==
    \/ r.hw_cpu_cores = NaN
    \/ r.hw_cpu_freq_max = NaN
    \/ r.hw_total_ram_gb = NaN
    \/ r.hw_gpu_vram_gb = NaN

\* df.groupby(hardware_cols): the keys of the groups; a row with a missing
\* value in a key column belongs to no group.
GroupKeys(d) ==
    {HardwareConfig(d[i]) : i \in {j \in 1..Len(d) : ~HasMissingKey(d[j])}}

GroupOf(d, key) == SelectSeq(d, LAMBDA r : HardwareConfig(r) = key)

SkipGroupNever(group) == FALSE
\* create_training_labels: a group too small to compare is skipped.
SkipGroup(group) == Len(group) < MinGroupSize

ViableIgnoringResponseTime(r) ==
    /\ r.tokens_per_second > MinTokensPerSecond
    /\ r.peak_ram_mb * 10 < r.hw_total_ram_gb * 1024 * RamShareTenths
\* create_training_labels: the viability filter (peak_ram_mb below 80% of RAM).
Viable(r) ==
    /\ r.tokens_per_second > MinTokensPerSecond
    /\ r.response_time < MaxResponseTime
    /\ r.peak_ram_mb * 10 < r.hw_total_ram_gb * 1024 * RamShareTenths

\* efficiency_score of a and of b compared: tps / (model_size_numeric + 1).
MoreEfficient(a, b) ==
    a.tokens_per_second * (b.model_size_numeric + 1000)
        > b.tokens_per_second * (a.model_size_numeric + 1000)

BestIdxByEfficiency(viable) ==
    LET first == CHOOSE i \in 1..Len(viable) :
                    /\ \A j \in 1..Len(viable) : ~MoreEfficient(viable[j], viable[i])
                    /\ \A j \in 1..(i - 1) : MoreEfficient(viable[i], viable[j])
    IN  viable[first].index
\* viable_models['tokens_per_second'].idxmax(): the index label of the first
\* row holding the maximum.
BestIdx(viable) ==
    LET first == CHOOSE i \in 1..Len(viable) :
                    /\ \A j \in 1..Len(viable) : viable[j].tokens_per_second <= viable[i].tokens_per_second
                    /\ \A j \in 1..(i - 1) : viable[j].tokens_per_second < viable[i].tokens_per_second
    IN  viable[first].index

SetLabelAllMax(d, viable) ==
    LET top == SetMax({viable[j].tokens_per_second : j \in 1..Len(viable)})
        tops == {viable[j].index : j \in {k \in 1..Len(viable) : viable[k].tokens_per_second = top}}
    IN  [i \in 1..Len(d) |-> IF d[i].index \in tops THEN [d[i] EXCEPT !.label_best = 1] ELSE d[i]]
\* df.loc[best_idx, 'label_best'] = 1
SetLabel(d, viable) ==
    LET best_idx == BestIdx(viable)
    IN  [i \in 1..Len(d) |-> IF d[i].index = best_idx THEN [d[i] EXCEPT !.label_best = 1] ELSE d[i]]

\* One pass of the loop over the groups.
LabelGroup(d, key) ==
    LET group == GroupOf(d, key)
        viable_models == SelectSeq(group, Viable)
    IN  IF SkipGroup(group) THEN d
        ELSE IF Len(viable_models) = 0 THEN d
        ELSE SetLabel(d, viable_models)

RECURSIVE LabelGroups(_, _)
LabelGroups(d, keys) ==
    IF keys = {} THEN d
    ELSE LET key == CHOOSE k \in keys : TRUE
         IN  LabelGroups(LabelGroup(d, key), keys \ {key})

\* create_training_labels
CreateTrainingLabels(d) ==
    LabelGroups([i \in 1..Len(d) |-> [label_best |-> 0] @@ d[i]], GroupKeys(d))

\* create_training_labels: labeled_count, the groups that got a label.
LabeledCount(d) ==
    Cardinality({key \in GroupKeys(d) :
                    /\ ~SkipGroup(GroupOf(d, key))
                    /\ Len(SelectSeq(GroupOf(d, key), Viable)) # 0})

PositiveLabels(d) == Cardinality({i \in 1..Len(d) : d[i].label_best = 1})

\* prepare_features: the selected columns, missing frequency and VRAM filled.
FillNa(x, default) == IF x = NaN THEN default ELSE x

PrepareFeatures(d) ==
    [i \in 1..Len(d) |->
        [index |-> d[i].index,
         host_id |-> d[i].host_id,
         model_id |-> d[i].model_id,
         model_size_numeric |-> d[i].model_size_numeric,
         hw_cpu_cores |-> d[i].hw_cpu_cores,
         hw_cpu_freq_max |-> FillNa(d[i].hw_cpu_freq_max, 3),
         hw_total_ram_gb |-> d[i].hw_total_ram_gb,
         gpu_model_normalized |-> d[i].gpu_model_normalized,
         hw_gpu_vram_gb |-> FillNa(d[i].hw_gpu_vram_gb, 0),
         hw_platform |-> d[i].hw_platform,
         ram_tier |-> d[i].ram_tier,
         cpu_tier |-> d[i].cpu_tier,
         vram_tier |-> d[i].vram_tier,
         tokens_per_second |-> d[i].tokens_per_second,
         peak_ram_mb |-> d[i].peak_ram_mb,
         response_time |-> d[i].response_time,
         label_best |-> d[i].label_best]]

\* analyze_dataset
AnalyzeDataset(d) ==
    [total_records |-> Len(d),
     unique_hosts |-> Cardinality({d[i].host_id : i \in 1..Len(d)}),
     unique_models |-> Cardinality({d[i].model_id : i \in 1..Len(d)}),
     positive_labels |-> PositiveLabels(d)]

\* save_processed_dataset: to_parquet(index=False) writes the columns only.
DropIndex(d) ==
    [i \in 1..Len(d) |-> [c \in DOMAIN d[i] \ {"index"} |-> d[i][c]]]

\* main(): the suitability thresholds of the closing report.
WarnPositiveLabels == 10
WarnUniqueHosts == 3

NoAnalysis == [total_records |-> 0, unique_hosts |-> 0, unique_models |-> 0, positive_labels |-> 0]
NoStats == [positive_labels |-> 0, labeled_count |-> 0]
NotWritten == [written |-> FALSE, rows |-> <<>>]

\* main(): `len(sys.argv) > 1 and sys.argv[1] == "--help"` (argv[1] is the
\* program's name here, sequences counting from 1).
HelpRequested(args) == Len(args) > 1 /\ args[2] = "--help"

\* `"--debug" in sys.argv`
DebugRequested(args) == \E i \in 1..Len(args) : args[i] = "--debug"

\* The command lines of a stage: none or one of the flags, or both.
PlainArgvs == { <<"main.py">>, <<"main.py", "--help">> }

AllArgvs ==
    PlainArgvs \cup
    { <<"main.py", "--debug">>, <<"main.py", "--help", "--debug">>,
      <<"main.py", "--debug", "--help">> }

\* data/raw is listed when the aggregator globs it, not before.
Unlisted == [listed |-> FALSE, files |-> <<>>]

\* data/raw with the batch files of the sequence files, in glob order.
Listed(files) == [listed |-> TRUE, files |-> files]

AggInit ==
    /\ apc = "main"
    /\ df = <<>>
    /\ analysis = NoAnalysis
    /\ processed = NotWritten
    /\ aerror = "none"
    /\ amessage = "none"
    /\ aexit = "running"
    /\ output_dir = FALSE
    /\ label_stats = NoStats

\* main() with --help: usage is printed and main returns.
AggHelp ==
    /\ apc = "main"
    /\ HelpRequested(argv)
    /\ apc' = "exit"
    /\ amessage' = "usage"
    /\ aexit' = "normal"
    /\ UNCHANGED <<df, analysis, processed, aerror, output_dir, label_stats>>
    /\ UNCHANGED <<argv, rvars, tvars, evars, cvars, zvars, kvars>>

\* main() without --help: DatasetAggregator() creates the output directory.
AggConstruct ==
    /\ apc = "main"
    /\ ~HelpRequested(argv)
    /\ apc' = "load_all_benchmarks"
    /\ output_dir' = TRUE
    /\ UNCHANGED <<df, analysis, processed, aerror, amessage, aexit, label_stats>>
    /\ UNCHANGED <<argv, rvars, tvars, evars, cvars, zvars, kvars>>

\* load_all_benchmarks on the batch files the glob of data/raw returned: it
\* raises into main()'s handler or hands on the combined table.
LoadFiles(parquet_files) ==
    IF LoadError(parquet_files) # "none"
    THEN /\ aerror' = LoadError(parquet_files)
         /\ apc' = "except"
         /\ df' = df
    ELSE /\ df' = LoadAllBenchmarks(parquet_files)
         /\ apc' = "clean_and_preprocess"
         /\ aerror' = aerror

\* process_all: df = self.load_all_benchmarks(), on the batch files the glob
\* of data/raw returns.
AggLoad ==
    /\ apc = "load_all_benchmarks"
    /\ ~raw_dir.listed
    /\ \E c \in RowCounts :
         \E hws \in [1..Len(c) -> HardwareSpecs] :
           \E runs \in [1..SeqSum(c) -> BenchmarkRuns] :
             /\ \A i \in 1..Len(c) : c[i] = 0 => hws[i] = AnyHardware
             /\ LoadFiles(Directory(c, hws, runs))
    /\ UNCHANGED <<analysis, processed, amessage, aexit, output_dir, label_stats>>
    /\ UNCHANGED <<argv, rvars, tvars, evars, cvars, zvars, kvars>>

\* process_all: df = self.load_all_benchmarks(), on a data/raw whose batch
\* files are fixed beforehand.
AggLoadListed ==
    /\ apc = "load_all_benchmarks"
    /\ raw_dir.listed
    /\ LoadFiles(raw_dir.files)
    /\ UNCHANGED <<analysis, processed, amessage, aexit, output_dir, label_stats>>
    /\ UNCHANGED <<argv, rvars, tvars, evars, cvars, zvars, kvars>>

\* process_all: df = self.clean_and_preprocess(df)
AggClean ==
    /\ apc = "clean_and_preprocess"
    /\ df' = CleanAndPreprocess(df)
    /\ apc' = "create_training_labels"
    /\ UNCHANGED <<analysis, processed, aerror, amessage, aexit, output_dir,
                   label_stats>>
    /\ UNCHANGED <<argv, rvars, tvars, evars, cvars, zvars, kvars>>

\* process_all: df = self.create_training_labels(df)
AggLabel ==
    /\ apc = "create_training_labels"
    /\ df' = CreateTrainingLabels(df)
    /\ label_stats' = [positive_labels |-> PositiveLabels(df'), labeled_count |-> LabeledCount(df)]
    /\ apc' = "prepare_features"
    /\ UNCHANGED <<analysis, processed, aerror, amessage, aexit, output_dir>>
    /\ UNCHANGED <<argv, rvars, tvars, evars, cvars, zvars, kvars>>

\* process_all: df = self.prepare_features(df)
AggFeatures ==
    /\ apc = "prepare_features"
    /\ df' = PrepareFeatures(df)
    /\ apc' = "analyze_dataset"
    /\ UNCHANGED <<analysis, processed, aerror, amessage, aexit, output_dir,
                   label_stats>>
    /\ UNCHANGED <<argv, rvars, tvars, evars, cvars, zvars, kvars>>

\* process_all: analysis = self.analyze_dataset(df)
AggAnalyze ==
    /\ apc = "analyze_dataset"
    /\ analysis' = AnalyzeDataset(df)
    /\ apc' = "save_processed_dataset"
    /\ UNCHANGED <<df, processed, aerror, amessage, aexit, output_dir, label_stats>>
    /\ UNCHANGED <<argv, rvars, tvars, evars, cvars, zvars, kvars>>

WriteParquetAppend(existing, table) == existing \o table
\* df.to_parquet(output_path, index=False) replaces the file, if there is one.
WriteParquet(existing, table) == table

\* process_all: output_path = self.save_processed_dataset(df)
AggSave ==
    /\ apc = "save_processed_dataset"
    /\ processed' = [written |-> TRUE, rows |-> WriteParquet(processed.rows, DropIndex(df))]
    /\ apc' = "report"
    /\ UNCHANGED <<df, analysis, aerror, amessage, aexit, output_dir, label_stats>>
    /\ UNCHANGED <<argv, rvars, tvars, evars, cvars, zvars, kvars>>

ReportMessageIgnoringLabels(a) ==
    IF a.unique_hosts < WarnUniqueHosts THEN "few_hosts" ELSE "looks_good"
\* main(): what the closing report says of the analysis.
ReportMessage(a) ==
    IF a.positive_labels < WarnPositiveLabels THEN "few_positive_labels"
    ELSE IF a.unique_hosts < WarnUniqueHosts THEN "few_hosts"
    ELSE "looks_good"

\* main(): the closing report on the analysis, then a normal return.
AggReport ==
    /\ apc = "report"
    /\ amessage' = ReportMessage(analysis)
    /\ apc' = "exit"
    /\ aexit' = "normal"
    /\ UNCHANGED <<df, analysis, processed, aerror, output_dir, label_stats>>
    /\ UNCHANGED <<argv, rvars, tvars, evars, cvars, zvars, kvars>>

\* main(): `except Exception as e` prints the error; main then returns.
AggExcept ==
    /\ apc = "except"
    /\ amessage' = IF DebugRequested(argv) THEN "error_during_aggregation_and_traceback"
                   ELSE "error_during_aggregation"
    /\ apc' = "exit"
    /\ aexit' = "normal"
    /\ UNCHANGED <<df, analysis, processed, aerror, output_dir, label_stats>>
    /\ UNCHANGED <<argv, rvars, tvars, evars, cvars, zvars, kvars>>

\* The aggregator is invoked a second time on the same data/raw: a new
\* process, which finds what the first one left on disk.
AggRerun ==
    /\ apc = "exit"
    /\ raw_dir.listed
    /\ arun = 1
    /\ arun' = 2
    /\ first_processed' = processed
    /\ apc' = "main"
    /\ df' = <<>>
    /\ analysis' = NoAnalysis
    /\ aerror' = "none"
    /\ amessage' = "none"
    /\ aexit' = "running"
    /\ label_stats' = NoStats
    /\ UNCHANGED <<processed, output_dir, raw_dir>>
    /\ UNCHANGED <<argv, tvars, evars, cvars, zvars, kvars>>

\* The orders a sequence can be put in.
Shuffles(s) ==
    LET Perms == {p \in [1..Len(s) -> 1..Len(s)] : \A i, j \in 1..Len(s) : p[i] = p[j] => i = j}
    IN  { [i \in 1..Len(s) |-> s[p[i]]] : p \in Perms }

\* The ways the same benchmark records can reach load_all_benchmarks: glob
\* lists the files in any order, and a file holds its rows in any order.
Rearranged(files) ==
    LET Stored(i) == { [ok |-> files[i].ok, rows |-> r] : r \in Shuffles(files[i].rows) }
        RowShuffled == { g \in [1..Len(files) -> UNION {Stored(i) : i \in 1..Len(files)}] :
                            \A i \in 1..Len(files) : g[i] \in Stored(i) }
    IN  UNION {Shuffles(g) : g \in RowShuffled}

\* The aggregator is invoked a second time on the same benchmark records,
\* which reach it in some order.
AggRerunReordered ==
    /\ apc = "exit"
    /\ raw_dir.listed
    /\ arun = 1
    /\ arun' = 2
    /\ first_processed' = processed
    /\ \E files \in Rearranged(raw_dir.files) : raw_dir' = Listed(files)
    /\ apc' = "main"
    /\ df' = <<>>
    /\ analysis' = NoAnalysis
    /\ aerror' = "none"
    /\ amessage' = "none"
    /\ aexit' = "running"
    /\ label_stats' = NoStats
    /\ UNCHANGED <<processed, output_dir>>
    /\ UNCHANGED <<argv, tvars, evars, cvars, zvars, kvars>>

\* The aggregator run, and run again on the same records in any order.
OrderNext ==
    \/ AggConstruct
    \/ AggLoadListed
    \/ AggClean
    \/ AggLabel
    \/ AggFeatures
    \/ AggAnalyze
    \/ AggSave
    \/ AggReport
    \/ AggExcept
    \/ AggRerunReordered

\* The aggregator run, and run again, on a data/raw fixed beforehand.
ListedNext ==
    \/ AggConstruct
    \/ AggLoadListed
    \/ AggClean
    \/ AggLabel
    \/ AggFeatures
    \/ AggAnalyze
    \/ AggSave
    \/ AggReport
    \/ AggExcept
    \/ AggRerun

AggNext ==
    \/ AggHelp
    \/ AggConstruct
    \/ AggLoad
    \/ AggClean
    \/ AggLabel
    \/ AggFeatures
    \/ AggAnalyze
    \/ AggSave
    \/ AggReport
    \/ AggExcept


\* The aggregator is not run.
AggIdle ==
    /\ apc = "idle"
    /\ df = <<>>
    /\ analysis = NoAnalysis
    /\ processed = NotWritten
    /\ aerror = "none"
    /\ amessage = "none"
    /\ aexit = "running"
    /\ output_dir = FALSE
    /\ label_stats = NoStats

\* ------------------------------------------------------- train_model.py
\* load_and_prepare_data: the minimum data requirements.
MinPositiveSamples == 10
MinHostCount == 2

PrimaryArtifacts == <<"model.keras", "scaler.joblib", "label_encoders.joblib", "metadata.json">>

\* What the processed dataset file can hold: missing, or a table summarised
\* by its count of positive labels and of distinct hosts.
Datasets ==
    { [exists |-> FALSE, positives |-> 0, hosts |-> 0] }
    \cup
    { d \in [exists : {TRUE}, positives : 0..MaxPositives, hosts : 0..MaxHostCount] :
        d.positives > 0 => d.hosts > 0 }

DataErrorIgnoringHosts(d) ==
    IF ~d.exists THEN "FileNotFoundError"
    ELSE IF d.positives < MinPositiveSamples THEN "ValueError"
    ELSE "none"
\* load_and_prepare_data: what it raises before preparing any feature.
DataError(d) ==
    IF ~d.exists THEN "FileNotFoundError"
    ELSE IF d.positives < MinPositiveSamples THEN "ValueError"
    ELSE IF d.hosts < MinHostCount THEN "ValueError"
    ELSE "none"

\* convert_to_onnx and _quantize_onnx_model: how the optional path can end.
OnnxOutcomes ==
    {"missing_dependency", "conversion_failed", "quantization_skipped",
     "quantization_failed", "quantized"}

OnnxCaughtImportErrorOnly(outcome) ==
    outcome \in {"missing_dependency", "quantization_skipped", "quantized"}
\* convert_to_onnx: `except ImportError` and `except Exception` leave nothing
\* to propagate; _quantize_onnx_model catches its own failures the same way.
OnnxCaught(outcome) == TRUE

\* The files the optional path leaves behind.
OnnxFiles(outcome) ==
    IF outcome \in {"quantization_skipped", "quantization_failed"} THEN {"model.onnx"}
    ELSE IF outcome = "quantized" THEN {"model.onnx", "model_quantized.onnx"}
    ELSE {}

TrainInit ==
    /\ tpc = "main"
    /\ tdata \in Datasets
    /\ model_dir = FALSE
    /\ encoders_fitted = FALSE
    /\ model_created = FALSE
    /\ model_fitted = FALSE
    /\ artifacts = {}
    /\ onnx_message = "none"
    /\ terror = "none"
    /\ tmessage = "none"
    /\ texit = "running"

\* The trainer is not run.
TrainIdle ==
    /\ tpc = "idle"
    /\ tdata = [exists |-> FALSE, positives |-> 0, hosts |-> 0]
    /\ model_dir = FALSE
    /\ encoders_fitted = FALSE
    /\ model_created = FALSE
    /\ model_fitted = FALSE
    /\ artifacts = {}
    /\ onnx_message = "none"
    /\ terror = "none"
    /\ tmessage = "none"
    /\ texit = "running"

\* main() with --help: usage is printed and main returns.
TrainHelp ==
    /\ tpc = "main"
    /\ HelpRequested(argv)
    /\ tpc' = "exit"
    /\ tmessage' = "usage"
    /\ texit' = "normal"
    /\ UNCHANGED <<tdata, model_dir, encoders_fitted, model_created, model_fitted, artifacts,
                   onnx_message, terror>>
    /\ UNCHANGED <<argv, avars, rvars, evars, cvars, zvars, kvars>>

\* main() without --help: ModelTrainer() creates the artifact directory.
TrainConstruct ==
    /\ tpc = "main"
    /\ ~HelpRequested(argv)
    /\ tpc' = "load_and_prepare_data"
    /\ model_dir' = TRUE
    /\ UNCHANGED <<tdata, encoders_fitted, model_created, model_fitted, artifacts,
                   onnx_message, terror, tmessage, texit>>
    /\ UNCHANGED <<argv, avars, rvars, evars, cvars, zvars, kvars>>

\* train_complete_pipeline: X, y, vocab_sizes, _ = self.load_and_prepare_data()
TrainLoad ==
    /\ tpc = "load_and_prepare_data"
    /\ IF DataError(tdata) # "none"
       THEN /\ terror' = DataError(tdata)
            /\ tpc' = "except"
            /\ encoders_fitted' = encoders_fitted
       ELSE /\ encoders_fitted' = TRUE
            /\ tpc' = "create_model"
            /\ terror' = terror
    /\ UNCHANGED <<tdata, model_dir, model_created, model_fitted, artifacts, onnx_message,
                   tmessage, texit>>
    /\ UNCHANGED <<argv, avars, rvars, evars, cvars, zvars, kvars>>

\* train_complete_pipeline: model = self.create_model(vocab_sizes)
TrainCreateModel ==
    /\ tpc = "create_model"
    /\ model_created' = TRUE
    /\ tpc' = "train_model"
    /\ UNCHANGED <<tdata, model_dir, encoders_fitted, model_fitted, artifacts, onnx_message,
                   terror, tmessage, texit>>
    /\ UNCHANGED <<argv, avars, rvars, evars, cvars, zvars, kvars>>

\* train_complete_pipeline: history = self.train_model(model, X, y); the
\* split, the fit or the AUC computation can raise.
TrainFit ==
    /\ tpc = "train_model"
    /\ model_fitted' = TRUE
    /\ \E raised \in BOOLEAN :
         IF raised
         THEN terror' = "TrainingError" /\ tpc' = "except"
         ELSE terror' = terror /\ tpc' = "save_model_and_preprocessors"
    /\ UNCHANGED <<tdata, model_dir, encoders_fitted, model_created, artifacts, onnx_message,
                   tmessage, texit>>
    /\ UNCHANGED <<argv, avars, rvars, evars, cvars, zvars, kvars>>

\* train_complete_pipeline: self.save_model_and_preprocessors(model); the
\* four files are written in order and a write can fail.
TrainSave ==
    /\ tpc = "save_model_and_preprocessors"
    /\ \E n \in 0..Len(PrimaryArtifacts) :
         /\ artifacts' = artifacts \cup {PrimaryArtifacts[i] : i \in 1..n}
         /\ IF n < Len(PrimaryArtifacts)
            THEN terror' = "OSError" /\ tpc' = "except"
            ELSE terror' = terror /\ tpc' = "convert_to_onnx"
    /\ UNCHANGED <<tdata, model_dir, encoders_fitted, model_created, model_fitted,
                   onnx_message, tmessage, texit>>
    /\ UNCHANGED <<argv, avars, rvars, evars, cvars, zvars, kvars>>

\* train_complete_pipeline: self.convert_to_onnx()
TrainOnnx ==
    /\ tpc = "convert_to_onnx"
    /\ \E outcome \in OnnxOutcomes :
         /\ onnx_message' = outcome
         /\ artifacts' = artifacts \cup OnnxFiles(outcome)
         /\ IF OnnxCaught(outcome)
            THEN terror' = terror /\ tpc' = "completed"
            ELSE terror' = "OnnxError" /\ tpc' = "except"
    /\ UNCHANGED <<tdata, model_dir, encoders_fitted, model_created, model_fitted, tmessage,
                   texit>>
    /\ UNCHANGED <<argv, avars, rvars, evars, cvars, zvars, kvars>>

\* train_complete_pipeline: the closing message and `return model, history`.
TrainComplete ==
    /\ tpc = "completed"
    /\ tmessage' = "completed_successfully"
    /\ tpc' = "exit"
    /\ texit' = "returned"
    /\ UNCHANGED <<tdata, model_dir, encoders_fitted, model_created, model_fitted, artifacts,
                   onnx_message, terror>>
    /\ UNCHANGED <<argv, avars, rvars, evars, cvars, zvars, kvars>>

\* train_complete_pipeline: `except Exception as e` prints and re-raises;
\* main() lets the exception through.
TrainExcept ==
    /\ tpc = "except"
    /\ tmessage' = IF DebugRequested(argv) THEN "training_failed_and_traceback"
                   ELSE "training_failed"
    /\ tpc' = "exit"
    /\ texit' = "raised"
    /\ UNCHANGED <<tdata, model_dir, encoders_fitted, model_created, model_fitted, artifacts,
                   onnx_message, terror>>
    /\ UNCHANGED <<argv, avars, rvars, evars, cvars, zvars, kvars>>

\* load_and_prepare_data: what it finds at data_path, the file the
\* aggregator wrote, and counts in it.
StoredDataset(file) ==
    [exists |-> file.written,
     positives |-> Cardinality({i \in 1..Len(file.rows) : file.rows[i].label_best = 1}),
     hosts |-> Cardinality({file.rows[i].host_id : i \in 1..Len(file.rows)})]

\* The trainer is invoked once the aggregator has returned: a new process,
\* which finds what the aggregator left on disk.
TrainStart ==
    /\ apc = "exit"
    /\ tpc = "idle"
    /\ tpc' = "main"
    /\ tdata' = StoredDataset(processed)
    /\ UNCHANGED <<model_dir, encoders_fitted, model_created, model_fitted, artifacts,
                   onnx_message, terror, tmessage, texit>>
    /\ UNCHANGED <<argv, avars, rvars, evars, cvars, zvars, kvars>>

TrainNext ==
    \/ TrainHelp
    \/ TrainConstruct
    \/ TrainLoad
    \/ TrainCreateModel
    \/ TrainFit
    \/ TrainSave
    \/ TrainOnnx
    \/ TrainComplete
    \/ TrainExcept

\* ------------------------------------- train_model.py: feature encoding
\* The values of a categorical column (strings as their characters), a
\* missing value among them.
CategoryValues ==
    { <<"a">>, <<"n">>, <<"a", "n">>, <<"n", "a", "n">>, NoString }

\* df[feature].astype(str): a missing value becomes the string "nan".
AsStr(v) == IF v = NoString THEN <<"n", "a", "n">> ELSE v

CharRank(c) == CASE c = "a" -> 1 [] c = "n" -> 2

\* s < t as Python compares strings.
StrLess(s, t) ==
    \E k \in 1..Len(t) :
        /\ k <= Len(s) + 1
        /\ \A j \in 1..(k - 1) : s[j] = t[j]
        /\ (k = Len(s) + 1 \/ CharRank(s[k]) < CharRank(t[k]))

RECURSIVE Sorted(_)
Sorted(S) ==
    IF S = {} THEN <<>>
    ELSE LET least == CHOOSE x \in S : \A y \in S \ {x} : StrLess(x, y)
         IN  <<least>> \o Sorted(S \ {least})

RECURSIVE FirstSeen(_)
FirstSeen(col) ==
    IF col = <<>> THEN <<>>
    ELSE LET before == FirstSeen(SubSeq(col, 1, Len(col) - 1))
             last == col[Len(col)]
         IN  IF \E i \in 1..Len(before) : before[i] = last THEN before
             ELSE Append(before, last)

FitClassesFirstSeen(col) == FirstSeen([i \in 1..Len(col) |-> AsStr(col[i])])
\* LabelEncoder.fit: classes_ are the distinct values, sorted.
FitClasses(col) == Sorted({AsStr(col[i]) : i \in 1..Len(col)})

\* The index of a fitted value in the vocabulary, from 0.
IndexOf(classes, s) == (CHOOSE i \in 1..Len(classes) : classes[i] = s) - 1

\* LabelEncoder.fit_transform: the column, each value as its index.
Transform(classes, col) == [i \in 1..Len(col) |-> IndexOf(classes, AsStr(col[i]))]

\* load_and_prepare_data: categorical_vocab_sizes[feature] = len(encoder.classes_)
VocabSize(classes) == Len(classes)

\* TabTransformer.__init__: Embedding(input_dim=vocab_size): the valid
\* indices of the feature's embedding table are 0..input_dim-1.
EmbeddingIndices(size) == 0..(size - 1)

\* Applying the fitted vocabulary to a value: its index, or the reserved final
\* "unknown" index when the value was not fitted; it never raises.
UnknownIndex(classes) == Len(classes)

ApplyVocabulary(classes, s) ==
    IF \E i \in 1..Len(classes) : classes[i] = s THEN IndexOf(classes, s)
    ELSE UnknownIndex(classes)

NotApplied == [done |-> FALSE, value |-> <<>>, index |-> 0, raised |-> FALSE]

EncInit ==
    /\ epc = "fit"
    /\ column \in UNION {[1..n -> CategoryValues] : n \in 1..MaxColumn}
    /\ classes_ = <<>>
    /\ vocab_size = 0
    /\ encoded = <<>>
    /\ applied = NotApplied

\* No feature is being encoded.
EncIdle ==
    /\ epc = "idle"
    /\ column = <<>>
    /\ classes_ = <<>>
    /\ vocab_size = 0
    /\ encoded = <<>>
    /\ applied = NotApplied

\* load_and_prepare_data: encoder.fit_transform(df[feature].astype(str)) and
\* the recording of the vocabulary size.
EncFit ==
    /\ epc = "fit"
    /\ classes_' = FitClasses(column)
    /\ encoded' = Transform(classes_', column)
    /\ vocab_size' = VocabSize(classes_')
    /\ epc' = "fitted"
    /\ UNCHANGED <<column, applied>>
    /\ UNCHANGED <<argv, avars, rvars, tvars, cvars, zvars, kvars>>

\* The fitted vocabulary applied to a value at inference.
EncApply ==
    /\ epc = "fitted"
    /\ \E v \in CategoryValues :
         applied' = [done |-> TRUE, value |-> AsStr(v),
                     index |-> ApplyVocabulary(classes_, AsStr(v)), raised |-> FALSE]
    /\ UNCHANGED <<epc, column, classes_, vocab_size, encoded>>
    /\ UNCHANGED <<argv, avars, rvars, tvars, cvars, zvars, kvars>>

EncNext ==
    \/ EncFit
    \/ EncApply

\* ------------------------------------------------ benchmark_collector.py
NoHardware ==
    [host_id |-> "none", cpu_cores |-> 0, cpu_freq_max |-> 0, total_ram_gb |-> 0,
     gpu_model |-> <<>>, gpu_vram_gb |-> 0, platform |-> "none"]

\* How one `ollama run` can end: exit code 0 with an output (the rate it
\* states, if any, and the number of its words), memory growth and time
\* measured around it; a non-zero exit code; the 120 s timeout; another
\* exception.
RunResults ==
    { [kind |-> "exit0", rate |-> r, words |-> w, stderr |-> "", memory_growth |-> g,
       elapsed |-> 5] :
        r \in {NaN} \cup 0..MaxTps, w \in {3, 12}, g \in {-5, 1000} }
    \cup
    { [kind |-> "nonzero", rate |-> NaN, words |-> 0, stderr |-> e, memory_growth |-> 0,
       elapsed |-> 5] : e \in {"", "Error: model not found"} }
    \cup
    { [kind |-> k, rate |-> NaN, words |-> 0, stderr |-> "", memory_growth |-> 0,
       elapsed |-> 120] : k \in {"timeout", "exception"} }

\* _extract_tokens_per_second: the rate a pattern finds in the output, else
\* 1.3 tokens for each word of an output of more than 10 words (in whole
\* tokens per second), else 0.
ExtractTokensPerSecond(output) ==
    IF output.rate # NaN THEN output.rate
    ELSE IF output.words > 10 THEN (output.words * 13) \div 10
    ELSE 0

BenchmarkModelTimesFailures(model, hw, result) ==
    LET benchmark ==
          [host_id |-> hw.host_id, model_id |-> model.model_id,
           model_size |-> model.model_size, tokens_per_second |-> 0, peak_ram_mb |-> 0,
           peak_vram_mb |-> 0, response_time |-> 0, success |-> FALSE,
           error_message |-> NoLabel]
    IN  CASE result.kind = "exit0" ->
               [benchmark EXCEPT !.tokens_per_second = ExtractTokensPerSecond(result),
                                 !.peak_ram_mb = IF result.memory_growth > 0
                                                 THEN result.memory_growth ELSE 0,
                                 !.response_time = result.elapsed,
                                 !.success = TRUE]
          [] result.kind = "nonzero" ->
               [benchmark EXCEPT !.error_message = result.stderr,
                                 !.response_time = result.elapsed]
          [] result.kind = "timeout" -> [benchmark EXCEPT !.error_message = "Timeout"]
          [] result.kind = "exception" -> [benchmark EXCEPT !.error_message = "exception"]
\* benchmark_model: the record starts zeroed and failed; an exit code of 0
\* fills in the measurements and sets success, anything else only the error
\* message.
BenchmarkModel(model, hw, result) ==
    LET benchmark ==
          [host_id |-> hw.host_id, model_id |-> model.model_id,
           model_size |-> model.model_size, tokens_per_second |-> 0, peak_ram_mb |-> 0,
           peak_vram_mb |-> 0, response_time |-> 0, success |-> FALSE,
           error_message |-> NoLabel]
    IN  CASE result.kind = "exit0" ->
               [benchmark EXCEPT !.tokens_per_second = ExtractTokensPerSecond(result),
                                 !.peak_ram_mb = IF result.memory_growth > 0
                                                 THEN result.memory_growth ELSE 0,
                                 !.response_time = result.elapsed,
                                 !.success = TRUE]
          [] result.kind = "nonzero" -> [benchmark EXCEPT !.error_message = result.stderr]
          [] result.kind = "timeout" -> [benchmark EXCEPT !.error_message = "Timeout"]
          [] result.kind = "exception" -> [benchmark EXCEPT !.error_message = "exception"]

\* collect_benchmark_data: the DataFrame of the records, the hardware fields
\* other than host_id added to each row as hw_<field>.
CollectedRows(benchs, hw) ==
    [k \in 1..Len(benchs) |->
        [hw_cpu_cores |-> hw.cpu_cores, hw_cpu_freq_max |-> hw.cpu_freq_max,
         hw_total_ram_gb |-> hw.total_ram_gb, hw_gpu_model |-> hw.gpu_model,
         hw_gpu_vram_gb |-> hw.gpu_vram_gb, hw_platform |-> hw.platform] @@ benchs[k]]

ColInit ==
    /\ cpc = "main"
    /\ raw_output_dir = FALSE
    /\ hardware_spec = NoHardware
    /\ models = <<>>
    /\ results = <<>>
    /\ benchmarks = <<>>
    /\ batch_file = NotWritten
    /\ cmessage = "none"
    /\ cexit = "running"

\* main() with --help: usage is printed and main returns.
ColHelp ==
    /\ cpc = "main"
    /\ HelpRequested(argv)
    /\ cpc' = "exit"
    /\ cmessage' = "usage"
    /\ cexit' = "normal"
    /\ UNCHANGED <<raw_output_dir, hardware_spec, models, results, benchmarks, batch_file>>
    /\ UNCHANGED <<argv, avars, rvars, tvars, evars, zvars, kvars>>

\* main() without --help: BenchmarkCollector() creates data/raw.
ColConstruct ==
    /\ cpc = "main"
    /\ ~HelpRequested(argv)
    /\ raw_output_dir' = TRUE
    /\ cpc' = "get_hardware_spec"
    /\ UNCHANGED <<hardware_spec, models, results, benchmarks, batch_file, cmessage, cexit>>
    /\ UNCHANGED <<argv, avars, rvars, tvars, evars, zvars, kvars>>

\* collect_benchmark_data: hardware_spec = self.hardware_detector.get_hardware_spec()
ColDetect ==
    /\ cpc = "get_hardware_spec"
    /\ hardware_spec' \in HardwareSpecs
    /\ cpc' = "get_available_models"
    /\ UNCHANGED <<raw_output_dir, models, results, benchmarks, batch_file, cmessage, cexit>>
    /\ UNCHANGED <<argv, avars, rvars, tvars, evars, zvars, kvars>>

\* benchmark_all_models: models = self.get_available_models(); with no model
\* (none installed, or `ollama list` failed) it returns the empty list and
\* collect_benchmark_data returns "".
ColListModels ==
    /\ cpc = "get_available_models"
    /\ \E n \in 0..MaxModels :
         /\ models' = SubSeq(InstalledModels, 1, n)
         /\ cpc' = IF n = 0 THEN "report" ELSE "benchmark_model"
    /\ UNCHANGED <<raw_output_dir, hardware_spec, results, benchmarks, batch_file, cmessage,
                   cexit>>
    /\ UNCHANGED <<argv, avars, rvars, tvars, evars, zvars, kvars>>

\* benchmark_all_models: one pass of the loop over the models.
ColBenchmark ==
    /\ cpc = "benchmark_model"
    /\ \E result \in RunResults :
         LET model == models[Len(benchmarks) + 1]
         IN  /\ results' = Append(results, result)
             /\ benchmarks' = Append(benchmarks, BenchmarkModel(model, hardware_spec, result))
    /\ cpc' = IF Len(benchmarks) + 1 = Len(models) THEN "to_parquet" ELSE cpc
    /\ UNCHANGED <<raw_output_dir, hardware_spec, models, batch_file, cmessage, cexit>>
    /\ UNCHANGED <<argv, avars, rvars, tvars, evars, zvars, kvars>>

\* collect_benchmark_data: the rows are written to the batch file, or the
\* write raises (no parquet engine, no space).
ColSave ==
    /\ cpc = "to_parquet"
    /\ \/ /\ batch_file' = [written |-> TRUE, rows |-> CollectedRows(benchmarks, hardware_spec)]
          /\ cpc' = "report"
       \/ /\ batch_file' = batch_file
          /\ cpc' = "except"
    /\ UNCHANGED <<raw_output_dir, hardware_spec, models, results, benchmarks, cmessage, cexit>>
    /\ UNCHANGED <<argv, avars, rvars, tvars, evars, zvars, kvars>>

\* main(): the closing report, then a normal return.
ColReport ==
    /\ cpc = "report"
    /\ cmessage' = IF batch_file.written THEN "collection_complete" ELSE "no_data_collected"
    /\ cpc' = "exit"
    /\ cexit' = "normal"
    /\ UNCHANGED <<raw_output_dir, hardware_spec, models, results, benchmarks, batch_file>>
    /\ UNCHANGED <<argv, avars, rvars, tvars, evars, zvars, kvars>>

\* main(): `except Exception as e` prints the error; main then returns.
ColExcept ==
    /\ cpc = "except"
    /\ cmessage' = IF DebugRequested(argv) THEN "error_during_collection_and_traceback"
                   ELSE "error_during_collection"
    /\ cpc' = "exit"
    /\ cexit' = "normal"
    /\ UNCHANGED <<raw_output_dir, hardware_spec, models, results, benchmarks, batch_file>>
    /\ UNCHANGED <<argv, avars, rvars, tvars, evars, zvars, kvars>>

ColNext ==
    \/ ColHelp
    \/ ColConstruct
    \/ ColDetect
    \/ ColListModels
    \/ ColBenchmark
    \/ ColSave
    \/ ColReport
    \/ ColExcept

\* The collector is not run.
ColIdle ==
    /\ cpc = "idle"
    /\ raw_output_dir = FALSE
    /\ hardware_spec = NoHardware
    /\ models = <<>>
    /\ results = <<>>
    /\ benchmarks = <<>>
    /\ batch_file = NotWritten
    /\ cmessage = "none"
    /\ cexit = "running"

\* --------------------------------------------------- the size of a model
\* The characters model identifiers are made of here ("x" for any letter
\* that is no unit).
IdChars == {"1", "7", ".", "b", "B", "m", "k", "x", ":"}

ModelIds == UNION {[1..n -> IdChars] : n \in 0..MaxIdLen}

\* The length of the match of \d+\.?\d*[kmb] starting at position i of str,
\* or 0: a run of digits, a dot and a run of digits if a dot follows, and
\* then the unit.
SizeMatchLen(str, i) ==
    LET n == DigitRun(SubSeq(str, i, Len(str)))
        dot == i + n <= Len(str) /\ str[i + n] = "."
        m == IF dot THEN DigitRun(SubSeq(str, i + n + 1, Len(str))) ELSE 0
        unitAt == IF dot THEN i + n + 1 + m ELSE i + n
    IN  IF n > 0 /\ unitAt <= Len(str) /\ str[unitAt] \in {"k", "m", "b"}
        THEN unitAt - i + 1
        ELSE 0

\* _extract_size_from_model_id: re.search returns the leftmost match in the
\* lowered identifier, "unknown" when there is none.
ExtractSizeFromModelId(id) ==
    LET lowered == LowerStr(id)
        starts == {i \in 1..Len(lowered) : SizeMatchLen(lowered, i) > 0}
    IN  IF starts = {} THEN <<"u", "n", "k", "n", "o", "w", "n">>
        ELSE LET i == CHOOSE j \in starts : \A k \in starts : j <= k
             IN  SubSeq(lowered, i, i + SizeMatchLen(lowered, i) - 1)

SizeInit ==
    /\ zpc = "extract"
    /\ model_id \in ModelIds
    /\ model_size = <<>>
    /\ size_numeric = 0

\* benchmark_model: model_size=self._extract_size_from_model_id(model_id)
SizeExtract ==
    /\ zpc = "extract"
    /\ model_size' = ExtractSizeFromModelId(model_id)
    /\ zpc' = "parse"
    /\ UNCHANGED <<model_id, size_numeric>>
    /\ UNCHANGED <<argv, avars, rvars, tvars, evars, cvars, kvars>>

\* clean_and_preprocess: df['model_size'].apply(self._parse_model_size)
SizeParse ==
    /\ zpc = "parse"
    /\ size_numeric' = ParseModelSize(model_size)
    /\ zpc' = "done"
    /\ UNCHANGED <<model_id, model_size>>
    /\ UNCHANGED <<argv, avars, rvars, tvars, evars, cvars, kvars>>

SizeNext ==
    \/ SizeExtract
    \/ SizeParse

\* No size is being derived.
SizeIdle ==
    /\ zpc = "idle"
    /\ model_id = <<>>
    /\ model_size = <<>>
    /\ size_numeric = 0

\* ------------------------------------------- train_model.py: model.fit
\* epochs=100
Epochs == 100

\* EarlyStopping(patience=10)
Patience == 10

\* ReduceLROnPlateau(patience=5)
PlateauPatience == 5

\* Adam(learning_rate=0.001) multiplied by factor=0.5 is above min_lr=1e-6
\* nine times; the tenth product is below it and min_lr is set, after
\* which the rate is no longer reduced.
FloorHalvings == 10

\* history.history['val_loss'] before the first epoch.
NoHistory == [min_val_loss |-> NaN, first_epoch |-> 0]

\* EarlyStopping._is_improvement with monitor='val_loss' (mode auto: less)
\* and min_delta=0: anything improves on None, then only a strictly lower
\* loss. ReduceLROnPlateau's test, less than best - 1e-4 from inf, agrees
\* with it on the whole-number losses drawn here.
IsImprovement(monitor_value, reference_value) ==
    \/ reference_value = NaN
    \/ monitor_value < reference_value

KeepLastWeights(held, current) == current
\* EarlyStopping.on_train_end with restore_best_weights=True: the weights
\* held, if any were, become the model's.
RestoredWeights(held, current) == IF held # NaN THEN held ELSE current

\* No model is being fitted.
FitIdle ==
    /\ fpc = "idle"
    /\ epoch = 0
    /\ val_loss = NaN
    /\ best = NaN
    /\ wait = 0
    /\ best_weights = NaN
    /\ weights = 0
    /\ stopped_epoch = 0
    /\ stop_training = FALSE
    /\ lr_best = NaN
    /\ lr_wait = 0
    /\ lr_halvings = 0
    /\ history = NoHistory

\* model.fit is called: nothing has run yet.
FitInit ==
    /\ fpc = "train_begin"
    /\ epoch = 0
    /\ val_loss = NaN
    /\ best = NaN
    /\ wait = 0
    /\ best_weights = NaN
    /\ weights = 0
    /\ stopped_epoch = 0
    /\ stop_training = FALSE
    /\ lr_best = NaN
    /\ lr_wait = 0
    /\ lr_halvings = 0
    /\ history = NoHistory

\* callbacks.on_train_begin: EarlyStopping and ReduceLROnPlateau reset
\* their counters; best is None (EarlyStopping) and inf (ReduceLROnPlateau).
FitBegin ==
    /\ fpc = "train_begin"
    /\ wait' = 0
    /\ stopped_epoch' = 0
    /\ best' = NaN
    /\ best_weights' = NaN
    /\ lr_best' = NaN
    /\ lr_wait' = 0
    /\ fpc' = "epoch"
    /\ UNCHANGED <<epoch, val_loss, weights, stop_training, lr_halvings, history>>
    /\ UNCHANGED <<argv, avars, rvars, tvars, evars, cvars, zvars>>

\* One pass of the epoch loop of model.fit: the training steps, the
\* validation pass, History, then on_epoch_end of EarlyStopping and of
\* ReduceLROnPlateau in the order of the callbacks list, then the loop's
\* test of stop_training and of the epoch count.
FitEpoch ==
    /\ fpc = "epoch"
    /\ epoch < Epochs
    /\ ~stop_training
    /\ \E current \in 0..MaxLoss :
        LET index == epoch
            trained == epoch + 1
            held == IF best_weights = NaN THEN trained ELSE best_weights
            improved == IsImprovement(current, best)
            waited == wait + 1
            stops == ~improved /\ waited >= Patience /\ index > 0
            lr_improved == IsImprovement(current, lr_best)
            lr_waited == lr_wait + 1
            reduces == ~lr_improved /\ lr_waited >= PlateauPatience
                       /\ lr_halvings < FloorHalvings
        IN  /\ val_loss' = current
            /\ weights' = trained
            /\ epoch' = trained
            /\ history' = IF history = NoHistory \/ current < history.min_val_loss
                          THEN [min_val_loss |-> current, first_epoch |-> trained]
                          ELSE history
            /\ best' = IF improved THEN current ELSE best
            /\ best_weights' = IF improved THEN trained ELSE held
            /\ wait' = IF improved THEN 0 ELSE waited
            /\ stopped_epoch' = IF stops THEN index ELSE stopped_epoch
            /\ stop_training' = stops
            /\ lr_best' = IF lr_improved THEN current ELSE lr_best
            /\ lr_wait' = IF lr_improved \/ reduces THEN 0 ELSE lr_waited
            /\ lr_halvings' = IF reduces THEN lr_halvings + 1 ELSE lr_halvings
            /\ fpc' = IF stops \/ trained = Epochs THEN "train_end" ELSE "epoch"
    /\ UNCHANGED <<argv, avars, rvars, tvars, evars, cvars, zvars>>

\* callbacks.on_train_end: EarlyStopping sets the weights it holds.
FitEnd ==
    /\ fpc = "train_end"
    /\ weights' = RestoredWeights(best_weights, weights)
    /\ fpc' = "done"
    /\ UNCHANGED <<epoch, val_loss, best, wait, best_weights, stopped_epoch, stop_training,
                   lr_best, lr_wait, lr_halvings, history>>
    /\ UNCHANGED <<argv, avars, rvars, tvars, evars, cvars, zvars>>

FitNext ==
    \/ FitBegin
    \/ FitEpoch
    \/ FitEnd

\* ------------------------------------------------------- specifications
\* The aggregation stage run on its own.
RerunIdle ==
    /\ raw_dir = Unlisted
    /\ arun = 1
    /\ first_processed = NotWritten

InitAgg ==
    /\ argv \in PlainArgvs
    /\ AggInit /\ RerunIdle /\ TrainIdle /\ EncIdle /\ ColIdle /\ SizeIdle /\ FitIdle

SpecAgg == InitAgg /\ [][AggNext]_vars

\* The training stage run on its own.
InitTrain ==
    /\ argv \in PlainArgvs
    /\ AggIdle /\ RerunIdle /\ TrainInit /\ EncIdle /\ ColIdle /\ SizeIdle /\ FitIdle

SpecTrain == InitTrain /\ [][TrainNext]_vars

\* The encoding of one categorical feature.
InitEnc ==
    /\ argv = <<"main.py">>
    /\ AggIdle /\ RerunIdle /\ TrainIdle /\ EncInit /\ ColIdle /\ SizeIdle /\ FitIdle

SpecEnc == InitEnc /\ [][EncNext]_vars

\* Hardware as hosts report it: each amount at, just below and just above a
\* tier breakpoint, and GPU names of every kind (a missing and an empty one
\* among them).
RamValues == {1, 7, 8, 9, 16, 17, 32, 33, 64, 65}
CoreValues == {1, 4, 5, 8, 9, 16, 17, 32, 33}
VramValues == {0, 1, 4, 5, 8, 9, 16, 17, 24, 25}

GpuNames ==
    { <<"NVIDIA", "GeForce", "RTX", "4090">>, <<"NVIDIA", "GeForce", "RTX", "3060">>,
      <<"NVIDIA", "GeForce", "GTX", "1080">>, <<"NVIDIA", "GeForce", "RTX", "5090">>,
      <<"NVIDIA", "Tesla", "T4">>, <<"Apple", "Silicon", "GPU">>, <<"CPU", "Only">>,
      <<"AMD", "Radeon", "RX", "580">>, <<"Intel", "Arc", "A770">>,
      <<"Quadro", "P2000">>, <<>>, NoString }

SurveyHardware(host) ==
    LET base == [host_id |-> host, cpu_cores |-> 8, cpu_freq_max |-> 3, total_ram_gb |-> 16,
                 gpu_model |-> <<"CPU", "Only">>, gpu_vram_gb |-> 0, platform |-> "Linux"]
    IN  {[base EXCEPT !.total_ram_gb = v] : v \in RamValues}
          \cup {[base EXCEPT !.cpu_cores = v] : v \in CoreValues}
          \cup {[base EXCEPT !.gpu_vram_gb = v] : v \in VramValues}
          \cup {[base EXCEPT !.gpu_model = g] : g \in GpuNames}

\* The collection stage run on its own.
InitCollect ==
    /\ argv \in PlainArgvs
    /\ AggIdle /\ RerunIdle /\ TrainIdle /\ EncIdle /\ ColInit /\ SizeIdle /\ FitIdle

SpecCollect == InitCollect /\ [][ColNext]_vars

\* A stage invoked standalone, with any of its command lines.
InitHelp ==
    /\ argv \in AllArgvs
    /\ RerunIdle /\ EncIdle /\ SizeIdle /\ FitIdle
    /\ \/ AggInit /\ TrainIdle /\ ColIdle
       \/ AggIdle /\ TrainInit /\ ColIdle
       \/ AggIdle /\ TrainIdle /\ ColInit

HelpNext ==
    \/ AggNext
    \/ TrainNext
    \/ ColNext

SpecHelp == InitHelp /\ [][HelpNext]_vars

\* The aggregation stage on the batch files of two hosts, one row each, or
\* on an empty data/raw.
InitSurvey ==
    /\ argv = <<"main.py">>
    /\ AggInit /\ TrainIdle /\ EncIdle /\ ColIdle /\ SizeIdle /\ FitIdle
    /\ arun = 1
    /\ first_processed = NotWritten
    /\ \/ raw_dir = Listed(<<>>)
       \/ \E a \in SurveyHardware("h1") :
            \E b \in SurveyHardware("h2") :
              LET run == [success |-> TRUE, tokens_per_second |-> MaxTps, peak_ram_mb |-> 100,
                          response_time |-> 5]
              IN  raw_dir = Listed(<<BatchFile(a, <<run>>), BatchFile(b, <<run>>)>>)

SpecSurvey == InitSurvey /\ [][ListedNext]_vars

\* Two hosts of the same hardware, as get_hardware_spec describes them.
TwinHardware ==
    LET hw == [host_id |-> "h1", cpu_cores |-> 8, cpu_freq_max |-> 3, total_ram_gb |-> 10,
               gpu_model |-> <<"NVIDIA", "GeForce", "RTX", "4090">>, gpu_vram_gb |-> 24,
               platform |-> "Linux"]
    IN  <<hw, [hw EXCEPT !.host_id = "h3"]>>

\* The runs of such a host: viable at either of two speeds, or too slow to
\* answer.
TwinRuns ==
    { [success |-> TRUE, tokens_per_second |-> t, peak_ram_mb |-> 1000, response_time |-> 5]
        : t \in {MaxTps - 1, MaxTps} }
    \cup
    { [success |-> TRUE, tokens_per_second |-> MaxTps, peak_ram_mb |-> 1000, response_time |-> 60] }

\* The aggregation stage on the batch files of two hosts of the same
\* hardware, or on an empty data/raw.
InitTwin ==
    /\ argv = <<"main.py">>
    /\ AggInit /\ TrainIdle /\ EncIdle /\ ColIdle /\ SizeIdle /\ FitIdle
    /\ arun = 1
    /\ first_processed = NotWritten
    /\ \/ raw_dir = Listed(<<>>)
       \/ \E n1, n2 \in 1..MaxTwinRows :
            \E runs1 \in [1..n1 -> TwinRuns] :
              \E runs2 \in [1..n2 -> TwinRuns] :
                raw_dir = Listed(<<BatchFile(TwinHardware[1], runs1),
                                   BatchFile(TwinHardware[2], runs2)>>)

SpecTwin == InitTwin /\ [][ListedNext]_vars

\* The hardware columns of a batch file as read_parquet can return them:
\* hw_cpu_freq_max and hw_gpu_vram_gb present or null, the nulls being what
\* prepare_features fills.
SparseHardware ==
    { [host_id |-> "h1", cpu_cores |-> 8, cpu_freq_max |-> f, total_ram_gb |-> 10,
       gpu_model |-> <<"CPU", "Only">>, gpu_vram_gb |-> v, platform |-> "Linux"]
        : f \in {NaN, 3}, v \in {NaN, 0, 24} }

\* The aggregation stage on one batch file with such columns, or on an
\* empty data/raw.
InitSparse ==
    /\ argv = <<"main.py">>
    /\ AggInit /\ TrainIdle /\ EncIdle /\ ColIdle /\ SizeIdle /\ FitIdle
    /\ arun = 1
    /\ first_processed = NotWritten
    /\ \/ raw_dir = Listed(<<>>)
       \/ \E hw \in SparseHardware :
            \E n \in 1..MaxSparseRows :
              \E runs \in [1..n -> TwinRuns] :
                raw_dir = Listed(<<BatchFile(hw, runs)>>)

SpecSparse == InitSparse /\ [][ListedNext]_vars

\* The hosts batch files come from.
HostNames == <<"h1", "h2", "h3", "h4", "h5">>

\* A data/raw of `groups` batch files, one per collection run, from `hosts`
\* hosts in turn: each run benchmarked two models, both viable, on a
\* hardware configuration no other run had.
CampaignFiles(groups, hosts) ==
    [g \in 1..groups |->
        BatchFile([host_id |-> HostNames[((g - 1) % hosts) + 1], cpu_cores |-> 8,
                   cpu_freq_max |-> 3, total_ram_gb |-> 10 + g,
                   gpu_model |-> <<"CPU", "Only">>, gpu_vram_gb |-> 0, platform |-> "Linux"],
                  <<[success |-> TRUE, tokens_per_second |-> 2, peak_ram_mb |-> 1000,
                     response_time |-> 5],
                    [success |-> TRUE, tokens_per_second |-> 3, peak_ram_mb |-> 1000,
                     response_time |-> 5]>>)]

\* The aggregation stage on such a data/raw (or an empty one), the trainer
\* not yet run.
InitChain ==
    /\ argv = <<"main.py">>
    /\ AggInit /\ TrainIdle /\ EncIdle /\ ColIdle /\ SizeIdle /\ FitIdle
    /\ arun = 1
    /\ first_processed = NotWritten
    /\ \/ raw_dir = Listed(<<>>)
       \/ \E groups \in 1..MaxPositives :
            \E hosts \in 1..MaxHostCount :
              /\ hosts <= groups
              /\ raw_dir = Listed(CampaignFiles(groups, hosts))

\* The aggregator, then the trainer on what it wrote.
ChainNext ==
    \/ AggConstruct
    \/ AggLoadListed
    \/ AggClean
    \/ AggLabel
    \/ AggFeatures
    \/ AggAnalyze
    \/ AggSave
    \/ AggReport
    \/ AggExcept
    \/ TrainStart
    \/ TrainConstruct
    \/ TrainLoad
    \/ TrainCreateModel
    \/ TrainFit
    \/ TrainSave
    \/ TrainOnnx
    \/ TrainComplete
    \/ TrainExcept

SpecChain == InitChain /\ [][ChainNext]_vars

\* Viable runs at either of two speeds.
OrderRuns ==
    { [success |-> TRUE, tokens_per_second |-> t, peak_ram_mb |-> 1000, response_time |-> 5]
        : t \in {MaxTps - 1, MaxTps} }

\* The aggregation stage on two batch files, of one host or of two hosts of
\* the same hardware, or on an empty data/raw.
InitOrder ==
    /\ argv = <<"main.py">>
    /\ AggInit /\ TrainIdle /\ EncIdle /\ ColIdle /\ SizeIdle /\ FitIdle
    /\ arun = 1
    /\ first_processed = NotWritten
    /\ \/ raw_dir = Listed(<<>>)
       \/ \E other \in 1..2 :
            \E n1, n2 \in 1..MaxOrderRows :
              \E runs1 \in [1..n1 -> OrderRuns] :
                \E runs2 \in [1..n2 -> OrderRuns] :
                  raw_dir = Listed(<<BatchFile(TwinHardware[1], runs1),
                                     BatchFile(TwinHardware[other], runs2)>>)

SpecOrder == InitOrder /\ [][OrderNext]_vars

\* The aggregation stage run twice on one data/raw.
InitRerun ==
    /\ argv = <<"main.py">>
    /\ AggInit /\ TrainIdle /\ EncIdle /\ ColIdle /\ SizeIdle /\ FitIdle
    /\ arun = 1
    /\ first_processed = NotWritten
    /\ \E c \in RowCountsWithin(MaxListedFiles, MaxListedRows) :
         \E hws \in [1..Len(c) -> HardwareSpecs] :
           \E runs \in [1..SeqSum(c) -> BenchmarkRuns] :
             /\ \A i \in 1..Len(c) : c[i] = 0 => hws[i] = AnyHardware
             /\ raw_dir = Listed(Directory(c, hws, runs))

SpecRerun == InitRerun /\ [][ListedNext]_vars

\* The size of one model, from its identifier to the number.
InitSize ==
    /\ argv = <<"main.py">>
    /\ AggIdle /\ RerunIdle /\ TrainIdle /\ EncIdle /\ ColIdle /\ SizeInit /\ FitIdle

SpecSize == InitSize /\ [][SizeNext]_vars

\* model.fit as train_model calls it, validation losses being any. The
\* epoch loop runs to its end once entered.
InitFit ==
    /\ argv = <<"main.py">>
    /\ AggIdle /\ RerunIdle /\ TrainIdle /\ EncIdle /\ ColIdle /\ SizeIdle /\ FitInit

SpecFit == InitFit /\ [][FitNext]_vars /\ WF_vars(FitNext)

\* Either stage invoked standalone through its main().
InitStages == InitAgg \/ InitTrain

StagesNext ==
    \/ AggNext
    \/ TrainNext

SpecStages == InitStages /\ [][StagesNext]_vars

Init == InitAgg \/ InitTrain \/ InitEnc

Next ==
    \/ AggNext
    \/ TrainNext
    \/ EncNext

Spec == Init /\ [][Next]_vars

\* --------------------------------------------------------- properties
\* The rows of df carry label_best: create_training_labels has run.
Labeled ==
    \/ apc \in {"prepare_features", "analyze_dataset", "save_processed_dataset", "report"}
    \/ apc = "exit" /\ processed.written

Rows == 1..Len(df)

\* Two rows share the exact hardware configuration.
SameHardware(a, b) ==
    /\ a.host_id = b.host_id
    /\ a.hw_cpu_cores = b.hw_cpu_cores
    /\ a.hw_cpu_freq_max = b.hw_cpu_freq_max
    /\ a.hw_total_ram_gb = b.hw_total_ram_gb
    /\ a.gpu_model_normalized = b.gpu_model_normalized
    /\ a.hw_gpu_vram_gb = b.hw_gpu_vram_gb

\* The viability filter as the specification states it.
PassesFilter(r) ==
    /\ r.tokens_per_second > 1
    /\ r.response_time < 60
    /\ 10 * r.peak_ram_mb < 8 * r.hw_total_ram_gb * 1024

\* The rows of row i's hardware group.
GroupRows(i) == {j \in Rows : SameHardware(df[i], df[j])}

\* C1: after create_training_labels every group of rows sharing the exact
\* hardware tuple holds at most one row with label_best = 1, and every other
\* row has label_best = 0.
C1_AtMostOnePositivePerGroup ==
    Labeled =>
        /\ \A i \in Rows : df[i].label_best \in {0, 1}
        /\ \A i \in Rows : \A j \in GroupRows(i) :
              (df[i].label_best = 1 /\ df[j].label_best = 1) => i = j

\* C1 witness: two viable rows of one group tie on throughput and only one
\* of them is labeled.
C1_Witness ==
    /\ Labeled
    /\ \E i \in Rows : \E j \in GroupRows(i) :
          /\ i # j
          /\ PassesFilter(df[i]) /\ PassesFilter(df[j])
          /\ df[i].tokens_per_second = df[j].tokens_per_second
          /\ df[i].label_best = 1 /\ df[j].label_best = 0

FirstBestViable(i) ==
    /\ PassesFilter(df[i])
    /\ \A j \in GroupRows(i) :
          PassesFilter(df[j]) =>
              /\ df[j].tokens_per_second <= df[i].tokens_per_second
              /\ (j < i => df[j].tokens_per_second < df[i].tokens_per_second)

\* C3: in every group with at least 2 rows and a viable row, the positive
\* label is on the viable row with the maximum tokens_per_second, the first
\* such row in encounter order on a tie, whatever the rows' model sizes and
\* efficiency scores.
C3_LabelGoesToFirstFastestViable ==
    Labeled =>
        \A i \in Rows :
            Cardinality(GroupRows(i)) >= 2 =>
                (df[i].label_best = 1 <=> FirstBestViable(i))

\* C3 witness: a labeled row that beats a faster row failing the filter,
\* wins a tie against a later viable row, and has the lower efficiency score
\* of the two tied rows.
C3_Witness ==
    /\ Labeled
    /\ \E i \in Rows : \E j \in GroupRows(i) : \E k \in GroupRows(i) :
          /\ df[i].label_best = 1
          /\ ~PassesFilter(df[j]) /\ df[j].tokens_per_second > df[i].tokens_per_second
          /\ k > i /\ PassesFilter(df[k])
          /\ df[k].tokens_per_second = df[i].tokens_per_second
          /\ df[k].model_size_numeric < df[i].model_size_numeric

\* C4: a group with fewer than 2 rows after cleaning is skipped: its single
\* row never gets label_best = 1, even when it passes the viability filter.
C4_SingleRowGroupsUnlabeled ==
    Labeled =>
        \A i \in Rows : Cardinality(GroupRows(i)) < 2 => df[i].label_best = 0

\* C4 witness: a viable row alone in its group, left unlabeled, beside a
\* group that did get its label.
C4_Witness ==
    /\ Labeled
    /\ \E i \in Rows :
          /\ GroupRows(i) = {i}
          /\ PassesFilter(df[i])
          /\ df[i].label_best = 0
    /\ \E k \in Rows : df[k].label_best = 1

\* The raw columns of a row, which cleaning must leave as they were.
RawColumns ==
    {"index", "host_id", "model_id", "model_size", "tokens_per_second", "peak_ram_mb",
     "response_time", "success", "hw_cpu_cores", "hw_cpu_freq_max", "hw_total_ram_gb",
     "hw_gpu_model", "hw_gpu_vram_gb", "hw_platform"}

\* The rows of d that the filter of the specification keeps, in order.
Survivors(d) == SelectSeq(d, LAMBDA r : r.success /\ r.tokens_per_second > 0)

\* C5: clean_and_preprocess returns exactly the input rows with success = true
\* and tokens_per_second > 0, in order: rows with success = false or
\* tokens_per_second <= 0 are absent and no other row is dropped; so every row
\* handed on to labeling and every row of the processed dataset has
\* tokens_per_second > 0.
C5_CleanKeepsExactlyGoodRows ==
    /\ [](/\ (Labeled \/ apc = "create_training_labels") =>
                \A i \in Rows : df[i].tokens_per_second > 0
          /\ \A i \in 1..Len(processed.rows) : processed.rows[i].tokens_per_second > 0)
    /\ [][(apc = "clean_and_preprocess" /\ apc' = "create_training_labels") =>
          /\ Len(df') = Len(Survivors(df))
          /\ \A k \in 1..Len(df') :
                /\ \A c \in RawColumns : df'[k][c] = Survivors(df)[k][c]
                /\ df'[k].success = TRUE
                /\ df'[k].tokens_per_second > 0]_vars

\* C5 witness: cleaning has dropped a row and kept another (the kept rows'
\* index labels show the gap).
C5_Witness ==
    /\ apc = "create_training_labels"
    /\ \E k \in Rows : df[k].index # k - 1

\* The trainer's pipeline was entered (main() did not stop at --help).
PipelineEntered == tpc \notin {"idle", "main"} /\ tmessage # "usage"

\* The dataset misses a minimum data requirement of the trainer.
InsufficientData == tdata.exists /\ (tdata.positives < 10 \/ tdata.hosts < 2)

\* C6: with fewer than 10 positive labels or fewer than 2 distinct hosts in
\* the loaded dataset, train_complete_pipeline raises before the model is
\* created, before any fit or predict step and before any artifact file is
\* written, and the error propagates out of the pipeline.
C6_PreconditionsBeforeTraining ==
    (PipelineEntered /\ InsufficientData) =>
        /\ ~encoders_fitted
        /\ ~model_created
        /\ ~model_fitted
        /\ artifacts = {}
        /\ tpc \in {"load_and_prepare_data", "except", "exit"}
        /\ tpc = "exit" => (texit = "raised" /\ terror = "ValueError")

\* C6 witness: a dataset with enough positive labels but a single host made
\* the pipeline end with the error raised.
C6_Witness ==
    /\ tpc = "exit"
    /\ texit = "raised"
    /\ tdata.exists /\ tdata.positives >= 10 /\ tdata.hosts = 1
    /\ artifacts = {}

\* The four primary artifacts are on disk.
PrimaryWritten ==
    {"model.keras", "scaler.joblib", "label_encoders.joblib", "metadata.json"} \subseteq artifacts

\* C7: the primary artifacts are all written before convert_to_onnx starts,
\* and whatever happens inside convert_to_onnx or _quantize_onnx_model is
\* caught and reported: the pipeline raises nothing because of it and ends by
\* returning the trained model.
C7_OnnxFailureDoesNotAbort ==
    /\ tpc = "convert_to_onnx" => (PrimaryWritten /\ onnx_message = "none")
    /\ onnx_message # "none" =>
          /\ PrimaryWritten
          /\ terror = "none"
          /\ tpc \in {"completed", "exit"}
          /\ tpc = "exit" => (texit = "returned" /\ tmessage = "completed_successfully")

\* C7 witness: the conversion failed and the pipeline still returned the
\* model with the primary artifacts written.
C7_Witness ==
    /\ tpc = "exit"
    /\ texit = "returned"
    /\ onnx_message = "conversion_failed"
    /\ PrimaryWritten

\* C8: each stage run through its main() ends in a non-zero/raised status when
\* its fatal condition occurs (aggregation: no batch file found, or every batch
\* file fails to parse; training: too few positive labels or hosts); it never
\* ends as a normal termination then.
C8_FatalConditionEndsAbnormally ==
    /\ (apc = "exit" /\ aerror \in {"FileNotFoundError", "ValueError"}) => aexit # "normal"
    /\ (tpc = "exit" /\ PipelineEntered /\ InsufficientData) => texit = "raised"

\* The string forms the encoder was fitted on.
FittedValues == {AsStr(column[i]) : i \in 1..Len(column)}

\* C9: applying the fitted vocabulary to a value not seen at fit time does not
\* raise and yields the reserved "unknown" index, an index no fitted value has
\* and one inside the feature's recorded vocabulary size (the input dimension
\* of its embedding table).
C9_UnknownIndexInsideVocabulary ==
    (applied.done /\ applied.value \notin FittedValues) =>
        /\ ~applied.raised
        /\ applied.index \notin {encoded[i] : i \in 1..Len(encoded)}
        /\ applied.index \in EmbeddingIndices(vocab_size)

\* C10 as amended: fitting assigns each distinct value (in its string form) a
\* unique index in ascending string order starting at 0, the n distinct values
\* map one-to-one onto 0..n-1, and the recorded vocabulary size is n.
C10_FitAssignsSortedIndices ==
    epc = "fitted" =>
        LET n == Cardinality(FittedValues)
            str(i) == AsStr(column[i])
        IN  /\ vocab_size = n
            /\ Len(encoded) = Len(column)
            /\ {encoded[i] : i \in 1..Len(encoded)} = 0..(n - 1)
            /\ \A i, j \in 1..Len(column) : (encoded[i] = encoded[j]) <=> (str(i) = str(j))
            /\ \A i, j \in 1..Len(column) : StrLess(str(i), str(j)) => encoded[i] < encoded[j]

\* C10 witness: a fitted column with a repeated value whose first value is not
\* its smallest, so the first row does not get index 0.
C10_Witness ==
    /\ epc = "fitted"
    /\ Len(column) = 3
    /\ AsStr(column[1]) = AsStr(column[3])
    /\ StrLess(AsStr(column[2]), AsStr(column[1]))
    /\ encoded = <<1, 0, 1>>

\* C10 as stated: the indices follow first-seen order, so a row's index is the
\* number of distinct values met before its value first appeared.
C10_FirstSeenOrder ==
    epc = "fitted" =>
        /\ vocab_size = Cardinality(FittedValues)
        /\ \A i \in 1..Len(column) :
              LET first == CHOOSE k \in 1..i :
                              /\ AsStr(column[k]) = AsStr(column[i])
                              /\ \A m \in 1..(k - 1) : AsStr(column[m]) # AsStr(column[i])
              IN  encoded[i] = Cardinality({AsStr(column[m]) : m \in 1..(first - 1)})

\* The value of a size token (digits, an optional fraction, an optional
\* unit) in thousandths: k and m divide by 1000, b and no unit do not.
TokenValue(token) ==
    LET n == DigitRun(token)
        dot == n < Len(token) /\ token[n + 1] = "."
        m == IF dot THEN DigitRun(SubSeq(token, n + 2, Len(token))) ELSE 0
        number == DigitsToInt(SubSeq(token, 1, n)) * 1000
                    + (IF dot THEN FractionMilli(SubSeq(token, n + 2, n + 1 + m)) ELSE 0)
    IN  IF token[Len(token)] \in {"k", "m"} THEN number \div 1000 ELSE number

\* A numeric token with an optional unit suffix: 7, 7b, 1.5b, 350m.
IsSizeToken(token) ==
    LET n == DigitRun(token)
        dot == n < Len(token) /\ token[n + 1] = "."
        m == IF dot THEN DigitRun(SubSeq(token, n + 2, Len(token))) ELSE 0
        rest == SubSeq(token, (IF dot THEN n + m + 2 ELSE n + 1), Len(token))
    IN  /\ n > 0
        /\ dot => m > 0
        /\ rest = <<>> \/ (Len(rest) = 1 /\ rest[1] \in {"k", "m", "b"})

\* The size the specification derives for an identifier: that of its trailing
\* size token (the longest one), 1.0 when it ends in none.
TrailingTokenSize(id) ==
    LET lowered == LowerStr(id)
        starts == {i \in 1..Len(lowered) : IsSizeToken(SubSeq(lowered, i, Len(lowered)))}
    IN  IF starts = {} THEN 1000
        ELSE LET i == CHOOSE j \in starts : \A k \in starts : j <= k
             IN  TokenValue(SubSeq(lowered, i, Len(lowered)))

\* C11: the size derived for a model identifier (the collector's extraction
\* followed by the aggregator's parser) is that of its trailing numeric token
\* with optional unit suffix: k or m divide the number by 1000, b or no unit
\* give the number itself, and no token gives 1.0.
C11_SizeIsTrailingToken ==
    zpc = "done" => size_numeric = TrailingTokenSize(model_id)

\* The rows of df carry the tiers and the GPU category: clean_and_preprocess
\* has run.
Cleaned == apc = "create_training_labels" \/ Labeled

\* The breakpoints and labels of the three tierings.
TierLabels == <<"low", "medium", "high", "very_high", "extreme">>
VramLabels == <<"none", "low", "medium", "high", "very_high", "extreme">>
RamBreakpoints == <<0, 8, 16, 32, 64>>
CoreBreakpoints == <<0, 4, 8, 16, 32>>
VramBreakpoints == <<-1, 0, 4, 8, 16, 24>>

\* x lies in the k-th bucket: above its lower breakpoint and, unless the
\* bucket is the last one, not above its upper breakpoint.
InBucket(x, breakpoints, k) ==
    /\ breakpoints[k] < x
    /\ k < Len(breakpoints) => x <= breakpoints[k + 1]

\* The tier of value x is the label of the one bucket x lies in.
TierIsBucket(x, tier, breakpoints, labels) ==
    /\ \E k \in 1..Len(labels) : tier = labels[k]
    /\ \A k \in 1..Len(labels) : tier = labels[k] <=> InBucket(x, breakpoints, k)

\* The position of a tier among its labels.
TierRank(tier, labels) == CHOOSE k \in 1..Len(labels) : labels[k] = tier

\* C12: every row with ram > 0, cores > 0 and vram > -1 gets, for each of
\* the three amounts, the label of the one bucket the amount lies in, a value
\* equal to a breakpoint belonging to the bucket below it; and of two rows the
\* one with the larger amount never has the lower tier.
C12_TiersFollowBreakpoints ==
    Cleaned =>
        /\ \A i \in Rows :
              /\ df[i].hw_total_ram_gb > 0 =>
                    TierIsBucket(df[i].hw_total_ram_gb, df[i].ram_tier, RamBreakpoints, TierLabels)
              /\ df[i].hw_cpu_cores > 0 =>
                    TierIsBucket(df[i].hw_cpu_cores, df[i].cpu_tier, CoreBreakpoints, TierLabels)
              /\ df[i].hw_gpu_vram_gb > -1 =>
                    TierIsBucket(df[i].hw_gpu_vram_gb, df[i].vram_tier, VramBreakpoints, VramLabels)
        /\ \A i, j \in Rows :
              /\ df[i].hw_total_ram_gb <= df[j].hw_total_ram_gb =>
                    TierRank(df[i].ram_tier, TierLabels) <= TierRank(df[j].ram_tier, TierLabels)
              /\ df[i].hw_cpu_cores <= df[j].hw_cpu_cores =>
                    TierRank(df[i].cpu_tier, TierLabels) <= TierRank(df[j].cpu_tier, TierLabels)
              /\ df[i].hw_gpu_vram_gb <= df[j].hw_gpu_vram_gb =>
                    TierRank(df[i].vram_tier, VramLabels) <= TierRank(df[j].vram_tier, VramLabels)

\* C12 witness: a host with 8 GB of RAM is tiered low beside one with 9 GB
\* tiered medium, and one without VRAM is tiered none.
C12_Witness ==
    /\ Cleaned
    /\ \E i, j \in Rows :
          /\ df[i].hw_total_ram_gb = 8 /\ df[i].ram_tier = "low"
          /\ df[j].hw_total_ram_gb = 9 /\ df[j].ram_tier = "medium"
          /\ df[i].hw_gpu_vram_gb = 0 /\ df[i].vram_tier = "none"

\* The rows of df carry the GPU category beside the name it was made from:
\* clean_and_preprocess has run and prepare_features has not.
Normalized == apc \in {"create_training_labels", "prepare_features"}

\* The closed vocabulary of GPU categories.
GpuVocabulary ==
    {"rtx_4090", "rtx_4080", "rtx_4070", "rtx_4060", "rtx_3090", "rtx_3080", "rtx_3070",
     "rtx_3060", "gtx_1080", "gtx_1070", "gtx_1060", "apple_silicon", "amd_gpu",
     "intel_gpu", "nvidia_gpu_other", "cpu_only", "unknown_gpu"}

\* The words the known patterns are made of: a model number after rtx or
\* gtx, or a vendor's name.
KnownModelNumbers ==
    [rtx |-> {"4090", "4080", "4070", "4060", "3090", "3080", "3070", "3060"},
     gtx |-> {"1080", "1070", "1060"}]

\* The name, put in lower case, has one of the known patterns in it.
MatchesKnownPattern(name) ==
    LET word(i) == Lower(name[i])
    IN  \/ \E i \in 1..(Len(name) - 1) :
              \/ word(i) = "rtx" /\ word(i + 1) \in KnownModelNumbers.rtx
              \/ word(i) = "gtx" /\ word(i + 1) \in KnownModelNumbers.gtx
              \/ word(i) = "apple" /\ word(i + 1) = "silicon"
              \/ word(i) = "cpu" /\ word(i + 1) = "only"
        \/ \E i \in 1..Len(name) : word(i) \in {"amd", "radeon", "intel", "nvidia", "geforce"}

\* C13: for every GPU name, an empty or a missing one included, the category
\* _normalize_gpu_name returns is a member of the closed vocabulary, and a
\* name that matches none of the known patterns gets unknown_gpu.
C13_GpuCategoryInVocabulary ==
    Normalized =>
        \A i \in Rows :
            /\ df[i].gpu_model_normalized \in GpuVocabulary
            /\ (df[i].hw_gpu_model # NoString /\ ~MatchesKnownPattern(df[i].hw_gpu_model)) =>
                  df[i].gpu_model_normalized = "unknown_gpu"

\* C13 witness: an unmatched name and the empty name both got unknown_gpu.
C13_Witness ==
    /\ Normalized
    /\ \E i, j \in Rows :
          /\ df[i].hw_gpu_model = <<"Quadro", "P2000">>
          /\ df[i].gpu_model_normalized = "unknown_gpu"
          /\ df[j].hw_gpu_model = <<>>
          /\ df[j].gpu_model_normalized = "unknown_gpu"

\* The k-th `ollama run` did not end with exit code 0.
RunFailed(k) == results[k].kind # "exit0"

\* The loop of benchmark_all_models is over.
AllBenchmarked == cpc \in {"to_parquet", "report", "except", "exit"} /\ models # <<>>

\* C14: whatever the outcomes of the runs, benchmark_all_models goes on to
\* the next model and ends with exactly one record per model, in model order;
\* the record of a failed run has success = false, an error message set, and
\* tokens_per_second, peak_ram_mb, peak_vram_mb and response_time all 0.
C14_FailedRunsAreRecordedAndSkipped ==
    /\ Len(benchmarks) <= Len(models)
    /\ Len(benchmarks) = Len(results)
    /\ AllBenchmarked => Len(benchmarks) = Len(models)
    /\ \A k \in 1..Len(benchmarks) :
          /\ benchmarks[k].model_id = models[k].model_id
          /\ benchmarks[k].success = ~RunFailed(k)
          /\ RunFailed(k) =>
                /\ benchmarks[k].error_message # NoLabel
                /\ benchmarks[k].tokens_per_second = 0
                /\ benchmarks[k].peak_ram_mb = 0
                /\ benchmarks[k].peak_vram_mb = 0
                /\ benchmarks[k].response_time = 0

\* C14 witness: the first model timed out, the second failed with a non-zero
\* exit code, and the batch file was written with both records.
C14_Witness ==
    /\ cpc = "exit"
    /\ batch_file.written
    /\ Len(batch_file.rows) = 2
    /\ results[1].kind = "timeout" /\ batch_file.rows[1].error_message = "Timeout"
    /\ results[2].kind = "nonzero" /\ batch_file.rows[2].success = FALSE

\* C15: a run that exits with code 0 and whose output holds no parseable
\* throughput figure is recorded as an error: success = false and an error
\* message.
C15_UnparseableOutputIsAnError ==
    \A k \in 1..Len(benchmarks) :
        (results[k].kind = "exit0" /\ results[k].rate = NaN) =>
            /\ benchmarks[k].success = FALSE
            /\ benchmarks[k].error_message # NoLabel

\* The command line holds the --help flag.
HelpFlagGiven == \E i \in 2..Len(argv) : argv[i] = "--help"

\* C17: a stage invoked with --help prints its usage and ends normally,
\* having created no directory, read no input, run no benchmark, trained
\* nothing and written no file.
C17_HelpHasNoSideEffects ==
    HelpFlagGiven =>
        /\ apc \in {"idle", "main", "exit"}
        /\ tpc \in {"idle", "main", "exit"}
        /\ cpc \in {"idle", "main", "exit"}
        /\ apc = "exit" => (amessage = "usage" /\ aexit = "normal")
        /\ tpc = "exit" => (tmessage = "usage" /\ texit = "normal")
        /\ cpc = "exit" => (cmessage = "usage" /\ cexit = "normal")
        /\ ~output_dir /\ df = <<>> /\ processed = NotWritten
        /\ ~model_dir /\ ~encoders_fitted /\ ~model_created /\ ~model_fitted /\ artifacts = {}
        /\ ~raw_output_dir /\ benchmarks = <<>> /\ batch_file = NotWritten

RECURSIVE ReadableRows(_)
ReadableRows(files) ==
    IF files = <<>> THEN <<>>
    ELSE (IF Head(files).ok THEN Head(files).rows ELSE <<>>) \o ReadableRows(Tail(files))

SomeFileParses == \E i \in 1..Len(raw_dir.files) : raw_dir.files[i].ok

\* C19: when at least one batch file parses, load_all_benchmarks raises
\* nothing and returns exactly the rows of the files that parse, in order,
\* the files that fail being skipped; it raises only when there is no batch
\* file (FileNotFoundError) or none parses (ValueError).
C19_LoadSkipsUnreadableFiles ==
    /\ SomeFileParses => aerror = "none"
    /\ aerror # "none" =>
          aerror = (IF raw_dir.files = <<>> THEN "FileNotFoundError" ELSE "ValueError")
    /\ apc = "except" => ~SomeFileParses
    /\ apc = "clean_and_preprocess" =>
          /\ SomeFileParses
          /\ Len(df) = Len(ReadableRows(raw_dir.files))
          /\ \A k \in 1..Len(df) :
                /\ df[k].index = k - 1
                /\ \A c \in RawColumns \ {"index"} : df[k][c] = ReadableRows(raw_dir.files)[k][c]

\* C19 witness: a file that fails to parse came first and the rows of the
\* file after it were loaded all the same.
C19_Witness ==
    /\ apc = "clean_and_preprocess"
    /\ Len(raw_dir.files) = 2
    /\ ~raw_dir.files[1].ok
    /\ Len(df) = 2

\* The hardware-configuration groups that have at least 2 rows and at least
\* one viable row, each as the set of its rows.
ComparableGroups ==
    {GroupRows(i) : i \in {j \in Rows : /\ Cardinality(GroupRows(j)) >= 2
                                        /\ \E k \in GroupRows(j) : PassesFilter(df[k])}}

\* C20: the rows with label_best = 1 are as many as the hardware-configuration
\* groups (host_id being part of the configuration) that have at least 2 rows
\* and a viable row, and the labeled_count create_training_labels reports
\* equals the positive_labels it reports.
C20_PositivesCountComparableGroups ==
    Labeled =>
        /\ Cardinality({i \in Rows : df[i].label_best = 1}) = Cardinality(ComparableGroups)
        /\ label_stats.positive_labels = Cardinality(ComparableGroups)
        /\ label_stats.labeled_count = label_stats.positive_labels

\* C20 witness: two hosts of identical hardware fields, three viable rows
\* each with one clear throughput winner, and exactly 2 positive labels, one
\* on each host's winner.
C20_Witness ==
    /\ Labeled
    /\ Len(df) = 6
    /\ \A i \in Rows : PassesFilter(df[i])
    /\ label_stats.positive_labels = 2
    /\ \E i, j \in Rows :
          /\ df[i].host_id # df[j].host_id
          /\ HardwareConfigWithoutHost(df[i]) = HardwareConfigWithoutHost(df[j])
          /\ df[i].label_best = 1 /\ df[j].label_best = 1
          /\ \A k \in GroupRows(i) \ {i} : df[k].tokens_per_second < df[i].tokens_per_second
          /\ \A k \in GroupRows(j) \ {j} : df[k].tokens_per_second < df[j].tokens_per_second

\* The epochs run since validation loss was last better than ever before.
EpochsWithoutImprovement == epoch - history.first_epoch

\* C18: model.fit runs at most 100 epochs and ends; it goes on while fewer
\* than 10 epochs in a row have failed to improve validation loss and stops
\* at the 10th; and once it has ended, the model's weights are those of the
\* epoch that first reached the lowest validation loss seen.
C18_FitStopsAndRestoresBest ==
    /\ [](epoch <= Epochs)
    /\ <>(fpc = "done")
    /\ [](EpochsWithoutImprovement <= Patience)
    /\ [](stop_training <=> (epoch > 0 /\ EpochsWithoutImprovement = Patience))
    /\ [](fpc \in {"train_end", "done"} => (stop_training \/ epoch = Epochs))
    /\ [](fpc = "done" => (weights = history.first_epoch /\ weights >= 1))

\* C18 witness: training was stopped before the 100th epoch, 10 epochs
\* after the best one, which was not the first, and the model has the best
\* epoch's weights rather than the last epoch's.
C18_Witness ==
    /\ fpc = "done"
    /\ stop_training
    /\ epoch < Epochs
    /\ history.first_epoch > 1
    /\ epoch = history.first_epoch + Patience
    /\ val_loss > history.min_val_loss
    /\ weights = history.first_epoch

\* The rows of the processed dataset in the hardware group of its row i, by
\* the values written.
WrittenGroup(i) ==
    {j \in 1..Len(processed.rows) : SameHardware(processed.rows[i], processed.rows[j])}

\* C21: in the processed dataset every row has a CPU frequency and a VRAM
\* amount, its three tiers are the buckets of the RAM, core count and VRAM
\* written in that row, and every hardware group of at least 2 rows with a
\* viable row has a positive row, whether its VRAM was missing or not.
C21_WrittenRowsAreFilledTieredAndLabeled ==
    processed.written =>
        \A i \in 1..Len(processed.rows) :
            LET r == processed.rows[i]
            IN  /\ r.hw_cpu_freq_max # NaN
                /\ r.hw_gpu_vram_gb # NaN
                /\ TierIsBucket(r.hw_total_ram_gb, r.ram_tier, RamBreakpoints, TierLabels)
                /\ TierIsBucket(r.hw_cpu_cores, r.cpu_tier, CoreBreakpoints, TierLabels)
                /\ TierIsBucket(r.hw_gpu_vram_gb, r.vram_tier, VramBreakpoints, VramLabels)
                /\ (Cardinality(WrittenGroup(i)) >= 2
                      /\ \E k \in WrittenGroup(i) : PassesFilter(processed.rows[k]))
                    => \E j \in WrittenGroup(i) : processed.rows[j].label_best = 1

\* C22: when the aggregator has reported "Dataset looks good for training",
\* the dataset it wrote holds at least 10 positive labels and at least 2
\* distinct hosts, and a trainer run on that file gets past its precondition
\* check without raising.
C22_LooksGoodMeetsTrainerPreconditions ==
    amessage = "looks_good" =>
        /\ processed.written
        /\ Cardinality({i \in 1..Len(processed.rows) : processed.rows[i].label_best = 1}) >= 10
        /\ Cardinality({processed.rows[i].host_id : i \in 1..Len(processed.rows)}) >= 2
        /\ tpc \notin {"idle", "main", "load_and_prepare_data"} =>
              (encoders_fitted /\ terror \notin {"ValueError", "FileNotFoundError"})

\* C22 witness: the aggregator reported a dataset of 10 positive labels from
\* 3 hosts as good, and the trainer run on it has passed its check.
C22_Witness ==
    /\ amessage = "looks_good"
    /\ analysis.positive_labels = 10
    /\ analysis.unique_hosts = 3
    /\ tpc = "create_model"
    /\ encoders_fitted
    /\ terror = "none"

\* The rows of a processed dataset labeled positive, each as its values.
PositiveRows(file) == {file.rows[i] : i \in {j \in 1..Len(file.rows) : file.rows[j].label_best = 1}}

\* Row i of the processed dataset is viable and as fast as any viable row of
\* its hardware group.
TopViable(i) ==
    /\ PassesFilter(processed.rows[i])
    /\ \A k \in WrittenGroup(i) :
          PassesFilter(processed.rows[k]) =>
              processed.rows[k].tokens_per_second <= processed.rows[i].tokens_per_second

\* Some hardware group has two viable rows tied on the maximum throughput.
TiedMaximum ==
    \E i, j \in 1..Len(processed.rows) :
        i # j /\ j \in WrittenGroup(i) /\ TopViable(i) /\ TopViable(j)

\* Both runs of the aggregator have written their dataset.
BothRunsDone == arun = 2 /\ apc = "exit" /\ processed.written /\ first_processed.written

\* C23: the aggregator run on the same records in another order of files
\* and of rows labels the same rows positive, unless a hardware group has
\* two viable rows tied on the maximum throughput; and with or without a
\* tie the labeled row of a group is the first, in the order loaded, of its
\* fastest viable rows.
C23_LabelsIndependentOfLoadOrder ==
    BothRunsDone =>
        /\ ~TiedMaximum => PositiveRows(processed) = PositiveRows(first_processed)
        /\ \A i \in 1..Len(processed.rows) :
              processed.rows[i].label_best = 1 =>
                  /\ TopViable(i)
                  /\ \A k \in WrittenGroup(i) : TopViable(k) => i <= k

\* C23 witness: the second run read the rows in another order than the
\* first, no group had a tie, and both runs labeled the same two rows.
C23_Witness ==
    /\ BothRunsDone
    /\ ~TiedMaximum
    /\ processed.rows # first_processed.rows
    /\ Cardinality(PositiveRows(processed)) = 2
    /\ PositiveRows(processed) = PositiveRows(first_processed)

====
